---- MODULE Spec2Model ----
(***************************************************************************)
(* Model of the execution-plan analysis engine of pgexplain:               *)
(*   parseCost                   (cost extractor)                          *)
(*   extractOperationType        (operation classifier)                    *)
(*   parseExplainForIndexes      (plan context walker)                     *)
(*   generateIndexRecommendations (recommendation generator)               *)
(* and of the commands that call it:                                       *)
(*   runExplain / getQueryInput  (command analyze)                         *)
(*   runBatch / parseSQLFile     (command batch)                           *)
(*                                                                         *)
(* Plan lines are TLA+ strings; the regular expressions of the source are  *)
(* operators that scan those strings character by character.  A cost is a  *)
(* float64 in the source; here it is an integer number of hundredths       *)
(* (CostScale), which is exact for the two-decimal costs EXPLAIN prints.   *)
(***************************************************************************)
EXTENDS Integers, Sequences, FiniteSets, TLC

VARIABLES plan, threshold, indexThreshold, costInfo, contexts, indexInfo, done,
          priorityCall, operationCall,
          costPos, walkPos,
          sqlFile, queries, flags, env, query, stdout, batchReport, sent, pc

\* the analysis engine: inputs, results and the calls that have returned
engineVars == <<plan, threshold, indexThreshold, costInfo, contexts, indexInfo, done>>

\* one call of calculatePriority: its arguments and its result
priorityVars == <<priorityCall>>

\* one call of extractOperationType: its argument and its result
classifyVars == <<operationCall>>

\* the positions of the two analyzers in their loops over the plan lines
stepVars == <<costPos, walkPos>>

\* the commands: flags and environment, the query read, the SQL file and its
\* queries, the messages printed, the batch report, the queries sent to the
\* planner and the position in the command
cmdVars == <<sqlFile, queries, flags, env, query, stdout, batchReport, sent, pc>>

vars == <<engineVars, priorityVars, classifyVars, stepVars, cmdVars>>

(***************************************************************************)
(* Bounds of the model.                                                    *)
(***************************************************************************)
MaxLines == 3
MaxCtx == 2
MaxSQLLines == 3
MaxQueries == 3

\* the plan lines of the two worked examples
SeqScanUsersLine == "Seq Scan on users  (cost=0.00..425.50 rows=1000 width=100)"

FilterStatusLine == "  Filter: (status = 'active'::text)"

HashJoinLine == "Hash Join  (cost=125.00..850.25 rows=10000 width=100)"

HashCondLine == "  Hash Cond: (orders.user_id = users.id)"

\* lines a plan is made of
PlanLines ==
  {SeqScanUsersLine,
   FilterStatusLine,
   HashJoinLine,
   HashCondLine,
   "  ->  Seq Scan on orders  (cost=0.00..12000.00 rows=500000 width=8)",
   "Sort  (cost=900.00..1500.75 rows=200 width=12)",
   "  Sort Key: users.name DESC, id",
   "Limit  (cost=..5.00 rows=1 width=4)",
   "Planning Time: 0.123 ms",
   ""}

\* the lines of the plans made to exercise the lookahead of the walker
\* the scan such a plan starts with
WalkScanLine == "Seq Scan on a  (cost=0.00..1200.00 rows=10 width=4)"

\* a child node with a cost annotation of its own
WalkChildScanLine == "  ->  Seq Scan on b  (cost=0.00..850.25 rows=10 width=4)"

\* the lines that follow
WalkLines ==
  {WalkChildScanLine,
   "  Filter: (x = 1 AND y = 2 AND x > 0)",
   "\tFilter: (y = 3 AND z = 4)",
   " Filter: (w = 5)",
   "  Merge Cond: (a.id = b.a_id)",
   "  Sort Key: b.k DESC, x"}

\* the elements of a sequence
Range(seq) == {seq[k] : k \in 1..Len(seq)}

\* An operation applied to a plan line is looked up in a table (...Memo)
\* computed once over MemoLines; on any other string it is computed.
MemoLines == PlanLines \cup WalkLines \cup {WalkScanLine}

(***************************************************************************)
(* Characters and strings (Go packages strings / strconv).                 *)
(***************************************************************************)
CostScale == 100

Digits == {"0", "1", "2", "3", "4", "5", "6", "7", "8", "9"}

LowerLetters ==
  {"a", "b", "c", "d", "e", "f", "g", "h", "i", "j", "k", "l", "m",
   "n", "o", "p", "q", "r", "s", "t", "u", "v", "w", "x", "y", "z"}

UpperLetters ==
  {"A", "B", "C", "D", "E", "F", "G", "H", "I", "J", "K", "L", "M",
   "N", "O", "P", "Q", "R", "S", "T", "U", "V", "W", "X", "Y", "Z"}

\* \w of the regexp package
WordChars == Digits \cup LowerLetters \cup UpperLetters \cup {"_"}

\* \s of the regexp package / unicode.IsSpace, restricted to the characters
\* a line can hold once the plan is split on newlines
SpaceChars == {" ", "\t"}

DigitVal ==
  [c \in Digits |->
     CASE c = "0" -> 0 [] c = "1" -> 1 [] c = "2" -> 2 [] c = "3" -> 3
       [] c = "4" -> 4 [] c = "5" -> 5 [] c = "6" -> 6 [] c = "7" -> 7
       [] c = "8" -> 8 [] c = "9" -> 9]

\* the least element of a non-empty set of offsets
MinOf(S) == CHOOSE x \in S : \A y \in S : x <= y

Char(s, p) == IF p >= 1 /\ p <= Len(s) THEN SubSeq(s, p, p) ELSE ""

\* strings.HasPrefix applied at offset p (1-based)
HasPrefixAt(s, p, pre) ==
  /\ p >= 1
  /\ p + Len(pre) - 1 <= Len(s)
  /\ SubSeq(s, p, p + Len(pre) - 1) = pre

HasPrefix(s, pre) == HasPrefixAt(s, 1, pre)

HasSuffix(s, suf) ==
  /\ Len(suf) <= Len(s)
  /\ SubSeq(s, Len(s) - Len(suf) + 1, Len(s)) = suf

Contains(s, sub) == \E p \in 1..(Len(s) + 1) : HasPrefixAt(s, p, sub)

\* offset of the leftmost occurrence of sub at or after p, 0 if none
RECURSIVE IndexFrom(_, _, _)
IndexFrom(s, p, sub) ==
  IF p + Len(sub) - 1 > Len(s) THEN 0
  ELSE IF HasPrefixAt(s, p, sub) THEN p
  ELSE IndexFrom(s, p + 1, sub)

\* length of the longest run of characters of class C starting at p
RECURSIVE RunLen(_, _, _)
RunLen(s, p, C) ==
  IF p > Len(s) \/ Char(s, p) \notin C THEN 0
  ELSE 1 + RunLen(s, p + 1, C)

\* length of the longest run of characters outside class C starting at p
RECURSIVE RunLenNot(_, _, _)
RunLenNot(s, p, C) ==
  IF p > Len(s) \/ Char(s, p) \in C THEN 0
  ELSE 1 + RunLenNot(s, p + 1, C)

RECURSIVE TrimLeft(_)
TrimLeft(s) ==
  IF Len(s) > 0 /\ Char(s, 1) \in SpaceChars THEN TrimLeft(Tail(s)) ELSE s

RECURSIVE TrimRight(_)
TrimRight(s) ==
  IF Len(s) > 0 /\ Char(s, Len(s)) \in SpaceChars
  THEN TrimRight(SubSeq(s, 1, Len(s) - 1))
  ELSE s

TrimSpace(s) == TrimRight(TrimLeft(s))

TrimSuffix(s, suf) ==
  IF HasSuffix(s, suf) THEN SubSeq(s, 1, Len(s) - Len(suf)) ELSE s

\* strings.Split(s, sep) for a one-character separator
RECURSIVE Split(_, _)

\* Split(s, sep), p being the offset of the first separator (0 if none)
splitAt(s, sep, p) ==
  IF p = 0 THEN <<s>>
  ELSE <<SubSeq(s, 1, p - 1)>> \o Split(SubSeq(s, p + 1, Len(s)), sep)

Split(s, sep) == splitAt(s, sep, IndexFrom(s, 1, sep))

\* strings.Join
RECURSIVE Join(_, _)
Join(elems, sep) ==
  IF Len(elems) = 0 THEN ""
  ELSE IF Len(elems) = 1 THEN elems[1]
  ELSE elems[1] \o sep \o Join(Tail(elems), sep)

\* strings.Fields: the maximal runs of non-space characters
RECURSIVE Fields(_)

\* the fields of t, a text without leading blanks whose first field has n
\* characters
fieldsFrom(t, n) ==
  IF Len(t) = 0 THEN <<>>
  ELSE <<SubSeq(t, 1, n)>> \o Fields(SubSeq(t, n + 1, Len(t)))

Fields(s) == fieldsFrom(TrimLeft(s), RunLenNot(TrimLeft(s), 1, SpaceChars))

\* value of a string of decimal digits
RECURSIVE ParseDigits(_)
ParseDigits(s) ==
  IF Len(s) = 0 THEN 0
  ELSE 10 * ParseDigits(SubSeq(s, 1, Len(s) - 1)) + DigitVal[Char(s, Len(s))]

\* strconv.ParseFloat on a string of the shape \d+\.?\d* (the only shape
\* costRegex hands it): the value in hundredths; err is the range error
\* float64 raises beyond 1.8e308.
MaxFloatDigits == 309

\* ParseFloat(s), n being the number of digits in front of the dot
parseFloatAt(s, n) ==
  LET frac == IF Char(s, n + 1) = "." THEN SubSeq(s, n + 2, Len(s)) ELSE ""
      f2   == SubSeq(frac \o "00", 1, 2)
  IN  [val |-> ParseDigits(SubSeq(s, 1, n)) * CostScale + ParseDigits(f2),
       err |-> n > MaxFloatDigits]

ParseFloat(s) == parseFloatAt(s, RunLen(s, 1, Digits))

\* strconv.ParseInt(s, 10, 64) on a string of digits.  On overflow the
\* source keeps the clamped value (the largest int64) and drops the error;
\* the model clamps at MaxInt, far above the only number a row estimate is
\* compared with (100000), so every comparison comes out as in the source.
MaxInt == 2147483647

RECURSIVE TrimLeftZeros(_)
TrimLeftZeros(s) ==
  IF Len(s) > 1 /\ Char(s, 1) = "0" THEN TrimLeftZeros(Tail(s)) ELSE s

\* the value of digits, a string of digits without leading zeros
clampInt(digits) == IF Len(digits) > 9 THEN MaxInt ELSE ParseDigits(digits)

ParseInt(s) == clampInt(TrimLeftZeros(s))

(***************************************************************************)
(* Regular expressions (Go package regexp, leftmost-first matching).  A    *)
(* pattern is matched at one offset of the string by threading an offset   *)
(* through its parts, left to right; offset 0 stands for "no match".  ps   *)
(* is the sequence of the offsets reached so far, the start offset first.  *)
(***************************************************************************)
\* the literal lit at offset p: the offset past it
Lit(s, p, lit) == IF HasPrefixAt(s, p, lit) THEN p + Len(lit) ELSE 0

\* lit? at offset p
Opt(s, p, lit) ==
  IF p = 0 THEN 0 ELSE IF HasPrefixAt(s, p, lit) THEN p + Len(lit) ELSE p

\* C* at offset p, greedy
Many(s, p, C) == IF p > 0 THEN p + RunLen(s, p, C) ELSE 0

\* C+ at offset p, greedy
Some(s, p, C) == IF p > 0 /\ Char(s, p) \in C THEN p + RunLen(s, p, C) ELSE 0

\* [^C]+ at offset p, greedy
SomeNot(s, p, C) ==
  IF p > 0 /\ p <= Len(s) /\ Char(s, p) \notin C
  THEN p + RunLenNot(s, p, C)
  ELSE 0

\* (?:alts[k]|alts[k+1]|...) at offset p: the first alternative that matches
RECURSIVE AnyOf(_, _, _, _)
AnyOf(s, p, alts, k) ==
  IF k > Len(alts) THEN 0
  ELSE IF HasPrefixAt(s, p, alts[k]) THEN p + Len(alts[k])
  ELSE AnyOf(s, p, alts, k + 1)

thenLit(s, ps, lit) == Append(ps, Lit(s, ps[Len(ps)], lit))

thenOpt(s, ps, lit) == Append(ps, Opt(s, ps[Len(ps)], lit))

thenMany(s, ps, C) == Append(ps, Many(s, ps[Len(ps)], C))

thenSome(s, ps, C) == Append(ps, Some(s, ps[Len(ps)], C))

thenSomeNot(s, ps, C) == Append(ps, SomeNot(s, ps[Len(ps)], C))

thenAnyOf(s, ps, alts) == Append(ps, AnyOf(s, ps[Len(ps)], alts, 1))

\* the submatches of a match attempt: <<>> when the last part did not match,
\* otherwise one string per span, a span <<a, b>> running from offset ps[a]
\* up to offset ps[b]
Groups(s, ps, spans) ==
  IF ps[Len(ps)] = 0 THEN <<>>
  ELSE [g \in 1..Len(spans) |->
          SubSeq(s, ps[spans[g][1]], ps[spans[g][2]] - 1)]

\* FindStringSubmatch, ms[i] being the match attempt at offset i: the match
\* at the leftmost offset that has one, <<>> when no offset has
FirstMatch(ms) ==
  IF \A i \in DOMAIN ms : ms[i] = <<>> THEN <<>>
  ELSE ms[MinOf({i \in DOMAIN ms : ms[i] # <<>>})]

\* costRegex: cost=(\d+\.?\d*)\.\.(\d+\.?\d*)
\* <<whole match, group 1, group 2>>

\* group 1 takes the dot and a fraction
costRegexFraction(s, i) ==
  Groups(s,
    thenMany(s, thenOpt(s, thenSome(s, thenLit(s,
      thenMany(s, thenLit(s, thenSome(s, thenLit(s, <<i>>, "cost="),
        Digits), "."), Digits),
      ".."), Digits), "."), Digits),
    <<<<1, 9>>, <<2, 5>>, <<6, 9>>>>)

\* group 1 is the bare digits
costRegexDigits(s, i) ==
  Groups(s,
    thenMany(s, thenOpt(s, thenSome(s, thenLit(s,
      thenSome(s, thenLit(s, <<i>>, "cost="), Digits),
      ".."), Digits), "."), Digits),
    <<<<1, 7>>, <<2, 3>>, <<4, 7>>>>)

\* m when it is a match, otherwise alt
orElse(m, alt) == IF m # <<>> THEN m ELSE alt

\* \.? prefers to take the dot
costRegexAt(s, i) == orElse(costRegexFraction(s, i), costRegexDigits(s, i))

costRegex(s) == FirstMatch([i \in 1..Len(s) |-> costRegexAt(s, i)])

\* (?:Seq Scan|Parallel Seq Scan|Index Scan|Index Only Scan|Bitmap Heap Scan)\s+on\s+(\w+)
scanKinds ==
  <<"Seq Scan", "Parallel Seq Scan", "Index Scan", "Index Only Scan",
    "Bitmap Heap Scan">>

tableNameRegexAt(s, i) ==
  Groups(s,
    thenSome(s, thenSome(s, thenLit(s, thenSome(s,
      thenAnyOf(s, <<i>>, scanKinds), SpaceChars), "on"), SpaceChars),
      WordChars),
    <<<<1, 6>>, <<5, 6>>>>)

tableNameRegex(s) == FirstMatch([i \in 1..Len(s) |-> tableNameRegexAt(s, i)])

\* rows=(\d+)
rowsRegexAt(s, i) ==
  Groups(s, thenSome(s, thenLit(s, <<i>>, "rows="), Digits),
         <<<<1, 3>>, <<2, 3>>>>)

rowsRegex(s) == FirstMatch([i \in 1..Len(s) |-> rowsRegexAt(s, i)])

\* <keyword>\s*\(([^)]+)\) : the keyword, optional blanks, an opening
\* parenthesis, the longest non-empty run free of ")" and then ")"
parenGroupAt(s, i, keyword) ==
  Groups(s,
    thenLit(s, thenSomeNot(s, thenLit(s, thenMany(s,
      thenLit(s, <<i>>, keyword), SpaceChars), "("), {")"}), ")"),
    <<<<1, 6>>, <<4, 5>>>>)

\* Filter:\s*\(([^)]+(?:\([^)]*\)[^)]*)*)\)
\* [^)]+ is greedy and stops in front of the first ")", where the optional
\* (?:...)* cannot start (it needs "("), so the group is the run up to the
\* first ")"; when the line has no ")" no shorter choice matches either.
filterRegexAt(s, i) == parenGroupAt(s, i, "Filter:")

filterRegex(s) == FirstMatch([i \in 1..Len(s) |-> filterRegexAt(s, i)])

\* Hash Cond:\s*\(([^)]+)\)
hashCondRegexAt(s, i) == parenGroupAt(s, i, "Hash Cond:")

hashCondRegex(s) == FirstMatch([i \in 1..Len(s) |-> hashCondRegexAt(s, i)])

\* Merge Cond:\s*\(([^)]+)\)
mergeCondRegexAt(s, i) == parenGroupAt(s, i, "Merge Cond:")

mergeCondRegex(s) == FirstMatch([i \in 1..Len(s) |-> mergeCondRegexAt(s, i)])

\* Sort Key:\s*(.+)
\* \s* gives one blank back to .+ when nothing but blanks follows the colon
sortKeyRegexAt(s, i) ==
  IF HasPrefixAt(s, i, "Sort Key:") /\ i + 9 <= Len(s)
  THEN <<SubSeq(s, i, Len(s)),
         SubSeq(s, MinOf({Many(s, i + 9, SpaceChars), Len(s)}), Len(s))>>
  ELSE <<>>

sortKeyRegex(s) == FirstMatch([i \in 1..Len(s) |-> sortKeyRegexAt(s, i)])

\* (\w+)\.(\w+)\s*=\s*(\w+)\.(\w+)
joinColumnRegexAt(s, i) ==
  Groups(s,
    thenSome(s, thenLit(s, thenSome(s, thenMany(s, thenLit(s, thenMany(s,
      thenSome(s, thenLit(s, thenSome(s, <<i>>, WordChars), "."), WordChars),
      SpaceChars), "="), SpaceChars), WordChars), "."), WordChars),
    <<<<1, 10>>, <<1, 2>>, <<3, 4>>, <<7, 8>>, <<9, 10>>>>)

joinColumnRegex(s) == FirstMatch([i \in 1..Len(s) |-> joinColumnRegexAt(s, i)])

\* \b(\w+)\s*(?:=|>|<|>=|<=|!=|<>|~~|LIKE|IN|IS)
filterOperators ==
  <<"=", ">", "<", ">=", "<=", "!=", "<>", "~~", "LIKE", "IN", "IS">>

\* \s* and an operator at offset p: the offset past the operator
operatorAfter(s, p) == AnyOf(s, Many(s, p, SpaceChars), filterOperators, 1)

\* \w+ is greedy and gives characters back one at a time until an operator
\* follows: the match that takes the longest k' <= k characters at i, as
\* <<offset past the match, group 1>>, or <<>>
RECURSIVE giveBack(_, _, _)
giveBack(s, i, k) ==
  IF k = 0 THEN <<>>
  ELSE IF operatorAfter(s, i + k) > 0
       THEN <<operatorAfter(s, i + k), SubSeq(s, i, i + k - 1)>>
       ELSE giveBack(s, i, k - 1)

\* one match attempt at the word boundary i
filterColumnRegexAt(s, i) ==
  IF Char(s, i) \in WordChars /\ Char(s, i - 1) \notin WordChars
  THEN giveBack(s, i, RunLen(s, i, WordChars))
  ELSE <<>>

\* FindAllStringSubmatch(expr, -1): group 1 of the successive
\* non-overlapping matches, left to right
RECURSIVE filterColumnRegexAll(_, _)

\* the matches from offset i on, m being the match attempt at i
filterColumnRegexNext(s, i, m) ==
  IF m # <<>> THEN <<m[2]>> \o filterColumnRegexAll(s, m[1])
  ELSE filterColumnRegexAll(s, i + 1)

filterColumnRegexAll(s, i) ==
  IF i > Len(s) THEN <<>>
  ELSE filterColumnRegexNext(s, i, filterColumnRegexAt(s, i))

(***************************************************************************)
(* Operation-type classifier.                                              *)
(***************************************************************************)
\* operations with the longer names ahead of the names they contain
operationsLongestFirst ==
  <<"Parallel Seq Scan", "Bitmap Index Scan", "Bitmap Heap Scan",
    "Index Only Scan", "Seq Scan", "Index Scan", "Nested Loop", "Hash Join",
    "Merge Join", "Hash", "Sort", "Aggregate", "Materialize", "Gather">>

operations ==
  <<"Seq Scan", "Index Scan", "Index Only Scan", "Bitmap Heap Scan",
    "Bitmap Index Scan", "Nested Loop", "Hash Join", "Merge Join",
    "Sort", "Aggregate", "Hash", "Materialize", "Gather", "Parallel Seq Scan">>

\* the first entry of operations, from index k on, that the text contains;
\* "" when there is none
RECURSIVE firstOperation(_, _)
firstOperation(trimmed, k) ==
  IF k > Len(operations) THEN ""
  ELSE IF Contains(trimmed, operations[k]) THEN operations[k]
  ELSE firstOperation(trimmed, k + 1)

\* firstWords keeping the first word only
firstWordOnly(parts) ==
  IF Len(parts) >= 1 THEN parts[1] ELSE "Unknown Operation"

\* the first two words of the line, its only word, or "Unknown Operation"
firstWords(parts) ==
  IF Len(parts) >= 2 THEN Join(SubSeq(parts, 1, 2), " ")
  ELSE IF Len(parts) = 1 THEN parts[1]
  ELSE "Unknown Operation"

\* extractOperationType on the trimmed line
classifyTrimmed(trimmed) ==
  IF firstOperation(trimmed, 1) # "" THEN firstOperation(trimmed, 1)
  ELSE firstWords(Fields(trimmed))

classifyOperation(line) == classifyTrimmed(TrimSpace(line))

extractOperationTypeMemo == [l \in MemoLines |-> classifyOperation(l)]

extractOperationType(line) ==
  IF line \in MemoLines THEN extractOperationTypeMemo[line]
  ELSE classifyOperation(line)

(***************************************************************************)
(* Cost extractor.                                                         *)
(***************************************************************************)
\* the outcome of strconv.ParseFloat as the loops use it: <<>> on an error
\* (the line is skipped), otherwise <<value>>
parsedCost(parsed) == IF parsed.err THEN <<>> ELSE <<parsed.val>>

\* matchedCost treating a line without cost annotation as a line of cost 0
\* instead of skipping it
matchedCostNoSkip(matches) ==
  IF Len(matches) >= 3 THEN parsedCost(ParseFloat(matches[3])) ELSE <<0>>

\* totalCost of a line whose costRegex submatches are matches: <<>> when the
\* line is skipped, otherwise <<totalCost>>
matchedCost(matches) ==
  IF Len(matches) >= 3 THEN parsedCost(ParseFloat(matches[3])) ELSE <<>>

lineCostMemo == [l \in MemoLines |-> matchedCost(costRegex(l))]

lineCost(line) ==
  IF line \in MemoLines THEN lineCostMemo[line] ELSE matchedCost(costRegex(line))

\* trackHighest keeping the cost of the last annotated line instead of the
\* running maximum
trackHighestLast(ci, totalCost) == [ci EXCEPT !.TotalCost = totalCost]

\* "Track the highest cost as the total query cost"
trackHighest(ci, totalCost) ==
  IF totalCost > ci.TotalCost THEN [ci EXCEPT !.TotalCost = totalCost] ELSE ci

\* identifyExpensive collecting only the lines strictly above the threshold
identifyExpensiveStrict(ci, line, totalCost, t) ==
  IF totalCost > t
  THEN [ci EXCEPT !.ExpensiveOps =
          Append(@, [Operation |-> extractOperationType(line),
                     Cost      |-> totalCost,
                     Line      |-> TrimSpace(line)])]
  ELSE ci

\* "Identify expensive operations"
identifyExpensive(ci, line, totalCost, t) ==
  IF totalCost >= t
  THEN [ci EXCEPT !.ExpensiveOps =
          Append(@, [Operation |-> extractOperationType(line),
                     Cost      |-> totalCost,
                     Line      |-> TrimSpace(line)])]
  ELSE ci

\* the body of the loop for a line of cost cost (<<>> or <<totalCost>>)
foldLine(ci, line, t, cost) ==
  IF cost = <<>> THEN ci
  ELSE identifyExpensive(trackHighest(ci, cost[1]), line, cost[1], t)

\* the body of the loop over the lines: one line folded into costInfo
parseCostLine(ci, line, t) == foldLine(ci, line, t, lineCost(line))

RECURSIVE parseCostLoop(_, _, _, _)
parseCostLoop(ci, lines, k, t) ==
  IF k > Len(lines) THEN ci
  ELSE parseCostLoop(parseCostLine(ci, lines[k], t), lines, k + 1, t)

\* setExceedsLimit raising the alert only strictly above the threshold
setExceedsLimitStrict(ci, t) ==
  IF ci.TotalCost > t THEN [ci EXCEPT !.ExceedsLimit = TRUE] ELSE ci

\* if costInfo.TotalCost >= threshold { costInfo.ExceedsLimit = true }
setExceedsLimit(ci, t) ==
  IF ci.TotalCost >= t THEN [ci EXCEPT !.ExceedsLimit = TRUE] ELSE ci

\* lines is strings.Split(plan, "\n")
parseCost(lines, t) ==
  setExceedsLimit(
    parseCostLoop([TotalCost      |-> 0,
                   ExpensiveOps   |-> <<>>,
                   ExceedsLimit   |-> FALSE,
                   ThresholdValue |-> t],
                  lines, 1, t),
    t)

(***************************************************************************)
(* Plan context walker.                                                    *)
(***************************************************************************)
\* number of following lines the walker looks at (j < i+5 in the source)
MaxLookahead == 4

\* appendNew without the search for an existing entry
appendAll(cols, found) == cols \o found

\* append to cols the entries of found that cols does not hold yet
RECURSIVE appendNew(_, _)
appendNew(cols, found) ==
  IF Len(found) = 0 THEN cols
  ELSE IF \E n \in 1..Len(cols) : cols[n] = found[1]
       THEN appendNew(cols, Tail(found))
       ELSE appendNew(Append(cols, found[1]), Tail(found))

\* the columns named by a Filter annotation whose filterRegex submatches are
\* filterMatches, <<>> when there is no annotation
filterColumnsOf(filterMatches) ==
  IF Len(filterMatches) > 1
  THEN filterColumnRegexAll(filterMatches[2], 1)
  ELSE <<>>

filterColumnsMemo == [l \in MemoLines |-> filterColumnsOf(filterRegex(l))]

filterColumns(nextLine) ==
  IF nextLine \in MemoLines THEN filterColumnsMemo[nextLine]
  ELSE filterColumnsOf(filterRegex(nextLine))

\* the Filter annotation of a child line
absorbFilter(ctx, nextLine) ==
  [ctx EXCEPT !.FilterColumns = appendNew(@, filterColumns(nextLine))]

\* the two "table.column" entries of a qualified equality whose
\* joinColumnRegex submatches are joinColMatches
joinPair(joinColMatches) ==
  IF Len(joinColMatches) > 4
  THEN <<joinColMatches[2] \o "." \o joinColMatches[3],
         joinColMatches[4] \o "." \o joinColMatches[5]>>
  ELSE <<>>

\* the entries of a Hash Cond / Merge Cond annotation whose submatches are
\* condMatches, <<>> when there is no annotation
joinColumnsOf(condMatches) ==
  IF Len(condMatches) > 1 THEN joinPair(joinColumnRegex(condMatches[2]))
  ELSE <<>>

hashJoinColumnsMemo == [l \in MemoLines |-> joinColumnsOf(hashCondRegex(l))]

hashJoinColumns(nextLine) ==
  IF nextLine \in MemoLines THEN hashJoinColumnsMemo[nextLine]
  ELSE joinColumnsOf(hashCondRegex(nextLine))

mergeJoinColumnsMemo == [l \in MemoLines |-> joinColumnsOf(mergeCondRegex(l))]

mergeJoinColumns(nextLine) ==
  IF nextLine \in MemoLines THEN mergeJoinColumnsMemo[nextLine]
  ELSE joinColumnsOf(mergeCondRegex(nextLine))

\* the Hash Cond and then the Merge Cond annotation of a child line
absorbCond(ctx, nextLine) ==
  [ctx EXCEPT !.JoinColumns =
     @ \o hashJoinColumns(nextLine) \o mergeJoinColumns(nextLine)]

\* the column of "table.column" split on ".", <<>> if it contributes none
qualifiedColumn(parts) == IF Len(parts) >= 2 THEN <<parts[2]>> ELSE <<>>

\* the column of a sort key that is trimmed and stripped of DESC / ASC
keyColumn(key) ==
  IF Contains(key, ".") THEN qualifiedColumn(Split(key, ".")) ELSE <<key>>

\* one key of a Sort Key list: its column, <<>> if it contributes none
sortKeyColumn(rawKey) ==
  keyColumn(TrimSuffix(TrimSuffix(TrimSpace(rawKey), " DESC"), " ASC"))

RECURSIVE sortKeyColumns(_)
sortKeyColumns(sortKeys) ==
  IF Len(sortKeys) = 0 THEN <<>>
  ELSE sortKeyColumn(sortKeys[1]) \o sortKeyColumns(Tail(sortKeys))

\* the columns of a Sort Key annotation whose sortKeyRegex submatches are
\* sortMatches, <<>> when there is no annotation
sortColumnsOf(sortMatches) ==
  IF Len(sortMatches) > 1 THEN sortKeyColumns(Split(sortMatches[2], ","))
  ELSE <<>>

sortColumnsMemo == [l \in MemoLines |-> sortColumnsOf(sortKeyRegex(l))]

sortColumns(nextLine) ==
  IF nextLine \in MemoLines THEN sortColumnsMemo[nextLine]
  ELSE sortColumnsOf(sortKeyRegex(nextLine))

\* the Sort Key annotation of a child line
absorbSortKey(ctx, nextLine) ==
  [ctx EXCEPT !.SortColumns = @ \o sortColumns(nextLine)]

\* the body of the lookahead loop for one child line
absorbLine(ctx, nextLine) ==
  absorbSortKey(absorbCond(absorbFilter(ctx, nextLine), nextLine), nextLine)

\* notIndented taking one space for an indent
notIndentedByOneSpace(nextLine) ==
  ~HasPrefix(nextLine, " ") /\ ~HasPrefix(nextLine, "\t")

\* the child line ends the lookahead: it starts with neither two spaces nor
\* a tab
notIndented(nextLine) ==
  ~HasPrefix(nextLine, "  ") /\ ~HasPrefix(nextLine, "\t")

\* lookAhead left also at a child line that carries a cost annotation
RECURSIVE lookAheadToNextNode(_, _, _, _)
lookAheadToNextNode(ctx, lines, j, last) ==
  IF j > last THEN ctx
  ELSE IF notIndented(lines[j]) \/ lineCost(lines[j]) # <<>> THEN ctx
  ELSE lookAheadToNextNode(absorbLine(ctx, lines[j]), lines, j + 1, last)

\* the lookahead loop: lines j .. last, left at the first line that is not
\* indented
RECURSIVE lookAhead(_, _, _, _)
lookAhead(ctx, lines, j, last) ==
  IF j > last THEN ctx
  ELSE IF notIndented(lines[j]) THEN ctx
  ELSE lookAhead(absorbLine(ctx, lines[j]), lines, j + 1, last)

\* anchorCost reading the low value of the annotation
anchorCostLow(costMatches) ==
  IF Len(costMatches) < 3 THEN <<>>
  ELSE parsedCost(ParseFloat(costMatches[2]))

\* cost of an anchor line whose costRegex submatches are costMatches: <<>>
\* when the line is skipped, otherwise <<cost>>
anchorCost(costMatches) ==
  IF Len(costMatches) < 3 THEN <<>>
  ELSE parsedCost(ParseFloat(costMatches[3]))

tableNameOf(tableMatches) ==
  IF Len(tableMatches) > 1 THEN tableMatches[2] ELSE ""

rowsEstimateOf(rowMatches) ==
  IF Len(rowMatches) > 1 THEN ParseInt(rowMatches[2]) ELSE 0

\* the context a line of cost cost opens, before its children are read
openContext(line, cost) ==
  IF cost = <<>> THEN <<>>
  ELSE <<[Line          |-> TrimSpace(line),
          OperationType |-> extractOperationType(line),
          TableName     |-> tableNameOf(tableNameRegex(line)),
          FilterColumns |-> <<>>,
          JoinColumns   |-> <<>>,
          SortColumns   |-> <<>>,
          Cost          |-> cost[1],
          RowsEstimate  |-> rowsEstimateOf(rowsRegex(line))]>>

\* the context a line opens, <<>> when the line is blank or carries no
\* parseable cost annotation
newContextFind(line) ==
  IF TrimSpace(line) = "" THEN <<>>
  ELSE openContext(line, anchorCost(costRegex(line)))

newContextMemo == [l \in MemoLines |-> newContextFind(l)]

newContext(line) ==
  IF line \in MemoLines THEN newContextMemo[line] ELSE newContextFind(line)

\* anchorWith reading on to the end of the plan
anchorWithUnbounded(opened, lines, i, t) ==
  IF opened = <<>> THEN <<>>
  ELSE IF opened[1].Cost < t THEN <<>>
  ELSE <<lookAhead(opened[1], lines, i + 1, Len(lines))>>

\* anchorWith skipping a line whose cost only equals the threshold
anchorWithAboveOnly(opened, lines, i, t) ==
  IF opened = <<>> THEN <<>>
  ELSE IF opened[1].Cost <= t THEN <<>>
  ELSE <<lookAhead(opened[1], lines, i + 1,
                   IF i + MaxLookahead < Len(lines)
                   THEN i + MaxLookahead ELSE Len(lines))>>

\* the context of anchor line i, which opens opened: <<>> when line i is
\* skipped
anchorWith(opened, lines, i, t) ==
  IF opened = <<>> THEN <<>>
  ELSE IF opened[1].Cost < t THEN <<>>
  ELSE <<lookAhead(opened[1], lines, i + 1,
                   IF i + MaxLookahead < Len(lines)
                   THEN i + MaxLookahead ELSE Len(lines))>>

anchorContext(lines, i, t) == anchorWith(newContext(lines[i]), lines, i, t)

RECURSIVE parseExplainLoop(_, _, _, _)
parseExplainLoop(ctxs, lines, i, t) ==
  IF i > Len(lines) THEN ctxs
  ELSE parseExplainLoop(ctxs \o anchorContext(lines, i, t), lines, i + 1, t)

\* lines is strings.Split(plan, "\n")
parseExplainForIndexes(lines, t) == parseExplainLoop(<<>>, lines, 1, t)

(***************************************************************************)
(* Recommendation generator.                                               *)
(***************************************************************************)
minInt(a, b) == IF a < b THEN a ELSE b

\* calculatePriority raising the tier when the cost reaches a limit, not only
\* when it exceeds it
calculatePriorityAtLimit(cost, rows, operationType) ==
  LET base     == IF cost >= 10000 * CostScale THEN 5
                  ELSE IF cost >= 5000 * CostScale THEN 4
                  ELSE IF cost >= 1000 * CostScale THEN 3
                  ELSE IF cost >= 500 * CostScale THEN 2
                  ELSE 1
      withRows == IF rows > 100000 THEN minInt(5, base + 1) ELSE base
  IN  IF operationType = "join" THEN minInt(5, withRows + 1) ELSE withRows

\* calculatePriority adding the row and join bonuses without the cap at 5
calculatePriorityUncapped(cost, rows, operationType) ==
  LET base     == IF cost > 10000 * CostScale THEN 5
                  ELSE IF cost > 5000 * CostScale THEN 4
                  ELSE IF cost > 1000 * CostScale THEN 3
                  ELSE IF cost > 500 * CostScale THEN 2
                  ELSE 1
      withRows == IF rows > 100000 THEN base + 1 ELSE base
  IN  IF operationType = "join" THEN withRows + 1 ELSE withRows

\* cost is in hundredths, so every cost tier is scaled by CostScale
calculatePriority(cost, rows, operationType) ==
  LET base     == IF cost > 10000 * CostScale THEN 5
                  ELSE IF cost > 5000 * CostScale THEN 4
                  ELSE IF cost > 1000 * CostScale THEN 3
                  ELSE IF cost > 500 * CostScale THEN 2
                  ELSE 1
      withRows == IF rows > 100000 THEN minInt(5, base + 1) ELSE base
  IN  IF operationType = "join" THEN minInt(5, withRows + 1) ELSE withRows

\* formatCreateIndexStatement naming the index after the first column only
formatCreateIndexStatementFirstColumn(rec) ==
  LET indexName  == "idx_" \o rec.TableName \o "_" \o rec.Columns[1]
      columnList == Join(rec.Columns, ", ")
  IN  "CREATE INDEX " \o indexName \o " ON " \o rec.TableName \o
      " USING " \o rec.IndexType \o " (" \o columnList \o ");"

formatCreateIndexStatement(rec) ==
  LET indexName  == "idx_" \o rec.TableName \o "_" \o Join(rec.Columns, "_")
      columnList == Join(rec.Columns, ", ")
  IN  "CREATE INDEX " \o indexName \o " ON " \o rec.TableName \o
      " USING " \o rec.IndexType \o " (" \o columnList \o ");"

systemTables == <<"pg_catalog", "information_schema">>

\* ^[a-zA-Z_][a-zA-Z0-9_]*$
validColumnName(col) ==
  /\ Len(col) >= 1
  /\ Char(col, 1) \in LowerLetters \cup UpperLetters \cup {"_"}
  /\ RunLen(col, 1, WordChars) = Len(col)

\* validateRecommendation without the check of the column names
validateRecommendationAnyColumn(rec) ==
  /\ rec.TableName # ""
  /\ Len(rec.Columns) # 0
  /\ \A n \in 1..Len(systemTables) : ~HasPrefix(rec.TableName, systemTables[n])

validateRecommendation(rec) ==
  /\ rec.TableName # ""
  /\ Len(rec.Columns) # 0
  /\ \A n \in 1..Len(systemTables) : ~HasPrefix(rec.TableName, systemTables[n])
  /\ \A n \in 1..Len(rec.Columns) : validColumnName(rec.Columns[n])

\* the key of the seen map: "table:column1,column2"
recKey(rec) == rec.TableName \o ":" \o Join(rec.Columns, ",")

\* rec with its CreateStatement filled in
withCreateStatement(rec) ==
  [rec EXCEPT !.CreateStatement = formatCreateIndexStatement(rec)]

\* a recommendation as the three rules build it, CreateStatement included
newRecommendation(tableName, columns, reason, ctx, rule) ==
  withCreateStatement(
    [TableName       |-> tableName,
     Columns         |-> columns,
     IndexType       |-> "BTREE",
     Reason          |-> reason,
     OperationType   |-> ctx.OperationType,
     OperationCost   |-> ctx.Cost,
     CreateStatement |-> "",
     Priority        |-> calculatePriority(ctx.Cost, ctx.RowsEstimate, rule)])

\* keep letting a later candidate overwrite the kept one of the same key
keepLast(acc, rec) ==
  IF ~validateRecommendation(rec) THEN acc
  ELSE IF recKey(rec) \in acc.seen
       THEN [acc EXCEPT !.recs =
               [m \in 1..Len(acc.recs) |->
                  IF recKey(acc.recs[m]) = recKey(rec) THEN rec ELSE acc.recs[m]]]
       ELSE [recs |-> Append(acc.recs, rec), seen |-> acc.seen \cup {recKey(rec)}]

\* if validateRecommendation(rec) && !seen[key] { append; seen[key] = true }
\* acc holds the Recommendations built so far and the keys of the seen map
keep(acc, rec) ==
  IF validateRecommendation(rec) /\ recKey(rec) \notin acc.seen
  THEN [recs |-> Append(acc.recs, rec), seen |-> acc.seen \cup {recKey(rec)}]
  ELSE acc

\* filterCandidate scored as the join rule scores its candidates
filterCandidateJoinScore(ctx, col) ==
  newRecommendation(ctx.TableName, <<col>>,
    "Sequential scan with filter on '" \o col \o "'", ctx, "join")

\* the candidate of Rule 1 for filter column col
filterCandidate(ctx, col) ==
  newRecommendation(ctx.TableName, <<col>>,
    "Sequential scan with filter on '" \o col \o "'", ctx, "filter")

\* Rule 1: one candidate per filter column, from column n on
RECURSIVE rule1(_, _, _)
rule1(acc, ctx, n) ==
  IF n > Len(ctx.FilterColumns) THEN acc
  ELSE rule1(keep(acc, filterCandidate(ctx, ctx.FilterColumns[n])), ctx, n + 1)

\* the candidate of Rule 2 for a "table.column" pair split into parts
joinCandidate(ctx, parts) ==
  newRecommendation(parts[1], <<parts[2]>>,
    "Join condition on '" \o parts[1] \o "." \o parts[2] \o "'", ctx, "join")

\* the body of the loop of Rule 2 for one pair split into parts
keepJoinCandidate(acc, ctx, parts) ==
  IF Len(parts) # 2 THEN acc ELSE keep(acc, joinCandidate(ctx, parts))

\* Rule 2: one candidate per "table.column" pair, from pair n on
RECURSIVE rule2(_, _, _)
rule2(acc, ctx, n) ==
  IF n > Len(ctx.JoinColumns) THEN acc
  ELSE rule2(keepJoinCandidate(acc, ctx, Split(ctx.JoinColumns[n], ".")),
             ctx, n + 1)

\* rule3 recommending one single-column index per sort column
rule3PerColumn(acc, ctx) ==
  LET RECURSIVE from(_, _)
      from(a, k) ==
        IF k > Len(ctx.SortColumns) THEN a
        ELSE from(keep(a, newRecommendation(ctx.TableName, <<ctx.SortColumns[k]>>,
                            "Expensive sort operation on " \o ctx.SortColumns[k],
                            ctx, "sort")),
                  k + 1)
  IN  from(acc, 1)

\* Rule 3: one composite candidate over all the sort columns
rule3(acc, ctx) ==
  keep(acc, newRecommendation(ctx.TableName, ctx.SortColumns,
              "Expensive sort operation on " \o Join(ctx.SortColumns, ", "),
              ctx, "sort"))

\* Rule 1 under its condition
applyRule1(acc, ctx) ==
  IF Contains(ctx.OperationType, "Seq Scan") /\ Len(ctx.FilterColumns) > 0
  THEN rule1(acc, ctx, 1)
  ELSE acc

\* Rule 2 under its condition
applyRule2(acc, ctx) ==
  IF /\ (\/ Contains(ctx.OperationType, "Hash Join")
         \/ Contains(ctx.OperationType, "Merge Join"))
     /\ Len(ctx.JoinColumns) > 0
  THEN rule2(acc, ctx, 1)
  ELSE acc

\* Rule 3 under its condition
applyRule3(acc, ctx) ==
  IF /\ Contains(ctx.OperationType, "Sort")
     /\ Len(ctx.SortColumns) > 0
     /\ ctx.TableName # ""
  THEN rule3(acc, ctx)
  ELSE acc

\* generateForContext without the skip of a context that names no table
generateForContextAnyTable(acc, ctx) ==
  applyRule3(applyRule2(applyRule1(acc, ctx), ctx), ctx)

\* the body of the loop over the contexts
generateForContext(acc, ctx) ==
  IF ctx.TableName = "" THEN acc
  ELSE applyRule3(applyRule2(applyRule1(acc, ctx), ctx), ctx)

RECURSIVE generateLoop(_, _, _)
generateLoop(acc, ctxs, n) ==
  IF n > Len(ctxs) THEN acc
  ELSE generateLoop(generateForContext(acc, ctxs[n]), ctxs, n + 1)

\* swapNeeded comparing the priorities only
swapNeededPriorityOnly(recs, i, j) ==
  recs[j].Priority > recs[i].Priority

\* recommendations[j] goes before recommendations[i]
swapNeeded(recs, i, j) ==
  \/ recs[j].Priority > recs[i].Priority
  \/ /\ recs[j].Priority = recs[i].Priority
     /\ recs[j].OperationCost > recs[i].OperationCost

RECURSIVE sortInner(_, _, _)
sortInner(recs, i, j) ==
  IF j > Len(recs) THEN recs
  ELSE IF swapNeeded(recs, i, j)
       THEN sortInner([recs EXCEPT ![i] = recs[j], ![j] = recs[i]], i, j + 1)
       ELSE sortInner(recs, i, j + 1)

RECURSIVE sortOuter(_, _)
sortOuter(recs, i) ==
  IF i > Len(recs) THEN recs
  ELSE sortOuter(sortInner(recs, i, i + 1), i + 1)

sortRecommendations(recommendations) == sortOuter(recommendations, 1)

RECURSIVE countHighPriority(_)
countHighPriority(recs) ==
  IF Len(recs) = 0 THEN 0
  ELSE (IF recs[1].Priority >= 4 THEN 1 ELSE 0) + countHighPriority(Tail(recs))

\* the info returned for the sorted recommendations
recommendationInfo(sorted, t) ==
  [Recommendations |-> sorted,
   TotalFound      |-> Len(sorted),
   HighPriority    |-> countHighPriority(sorted),
   ThresholdUsed   |-> t]

generateIndexRecommendations(ctxs, t) ==
  recommendationInfo(
    sortRecommendations(generateLoop([recs |-> <<>>, seen |-> {}], ctxs, 1).recs),
    t)

analyzeIndexOpportunities(lines, t) ==
  generateIndexRecommendations(parseExplainForIndexes(lines, t), t)

(***************************************************************************)
(* Inputs.                                                                 *)
(***************************************************************************)
\* strings.Split(plan, "\n") of every plan text of at most MaxLines lines
\* over PlanLines; the empty plan text splits into the single line ""
Plans == UNION {[1..n -> PlanLines] : n \in 1..MaxLines}

\* thresholds, in hundredths: -1.00 (caller misuse), 0 (alerts off), 425.50,
\* 850.25 (also an index threshold), 1000.00
Thresholds == {-100, 0, 42550, 85025, 100000}

\* index thresholds, in hundredths: 0 and 850.25, the cost of the Hash Join
\* example, which has plan lines below it, at it and above it
IndexThresholds == {0, 85025}

\* field values of the contexts handed straight to the generator
GenOperationTypes == {"Seq Scan", "Hash Join", "Sort", "Seq Scan Merge Join Sort"}

\* every annotation bundle holds filter, join and sort columns: the operation
\* type alone decides which rules apply
FullAnnotation ==
  [f |-> <<"id">>,
   j |-> <<"pg_catalog.oid", "users.id">>,
   s |-> <<"name", "id">>]

GenAnnotations ==
  {[f |-> <<"status", "2fa">>,
    j |-> <<"orders.user_id", "users.status">>,
    s |-> <<"status">>],
   FullAnnotation,
   [f |-> <<>>,
    j |-> <<>>,
    s |-> <<"name", "lower(id">>]}

\* <<cost in hundredths, row estimate>>
CheapCost == <<42550, 1000>>

GenCosts == {CheapCost, <<1200000, 500000>>}

\* a cost of the same tier as CheapCost: priorities tie, costs differ
OtherCost == <<45000, 2000>>

GenContext(op, tbl, a, c) ==
  [Line          |-> op,
   OperationType |-> op,
   TableName     |-> tbl,
   FilterColumns |-> a.f,
   JoinColumns   |-> a.j,
   SortColumns   |-> a.s,
   Cost          |-> c[1],
   RowsEstimate  |-> c[2]]

\* contexts on table users with every annotation bundle and cost, and
\* contexts without table name or on a system table
GenContexts ==
  {GenContext(op, "users", a, c) :
     op \in GenOperationTypes, a \in GenAnnotations, c \in GenCosts}
  \cup
  {GenContext(op, tbl, FullAnnotation, OtherCost) :
     op \in GenOperationTypes, tbl \in {"", "pg_catalog"}}

ContextSeqs == UNION {[1..n -> GenContexts] : n \in 0..MaxCtx}

(***************************************************************************)
(* State machine.  done holds the calls that have returned; threshold and  *)
(* indexThreshold hold the arguments of those calls.                       *)
(***************************************************************************)
noCostInfo ==
  [TotalCost |-> 0, ExpensiveOps |-> <<>>, ExceedsLimit |-> FALSE,
   ThresholdValue |-> 0]

noIndexInfo ==
  [Recommendations |-> <<>>, TotalFound |-> 0, HighPriority |-> 0,
   ThresholdUsed |-> 0]

\* no call of calculatePriority on its own
NoPriorityCall == priorityCall = <<>>

\* extractOperationType is not called on its own
NoClassifyCall == operationCall = <<>>

\* the analyzers are called as a whole, not line by line
NoSteps == costPos = 0 /\ walkPos = 0

\* no command is running
NoCommand ==
  /\ sqlFile = <<>>
  /\ queries = <<>>
  /\ flags = <<>>
  /\ env = <<>>
  /\ query = <<>>
  /\ stdout = <<>>
  /\ batchReport = <<>>
  /\ sent = <<>>
  /\ pc = ""

\* a plan text; no analyzer has run, no threshold has been passed
Init ==
  /\ plan \in Plans
  /\ threshold = 0
  /\ indexThreshold = 0
  /\ costInfo = noCostInfo
  /\ contexts = <<>>
  /\ indexInfo = noIndexInfo
  /\ done = {}
  /\ NoPriorityCall /\ NoClassifyCall /\ NoSteps /\ NoCommand

\* costInfo = parseCost(plan, threshold), for any threshold
CallParseCost ==
  /\ "parseCost" \notin done
  /\ \E t \in Thresholds :
       /\ threshold' = t
       /\ costInfo' = parseCost(plan, t)
  /\ done' = done \cup {"parseCost"}
  /\ UNCHANGED <<plan, indexThreshold, contexts, indexInfo>>
  /\ UNCHANGED <<priorityVars, classifyVars, stepVars, cmdVars>>

\* indexInfo = analyzeIndexOpportunities(plan, indexThreshold), for any
\* index threshold; contexts is the local variable of that function
CallAnalyzeIndexOpportunities ==
  /\ "analyzeIndexOpportunities" \notin done
  /\ \E t \in IndexThresholds :
       /\ indexThreshold' = t
       /\ contexts' = parseExplainForIndexes(plan, t)
       /\ indexInfo' = generateIndexRecommendations(contexts', t)
  /\ done' = done \cup {"analyzeIndexOpportunities"}
  /\ UNCHANGED <<plan, threshold, costInfo>>
  /\ UNCHANGED <<priorityVars, classifyVars, stepVars, cmdVars>>

Next == CallParseCost \/ CallAnalyzeIndexOpportunities

Spec == Init /\ [][Next]_vars

\* the generator alone, on any sequence of contexts
InitGen ==
  /\ plan = <<"">>
  /\ threshold = 0
  /\ indexThreshold = 0
  /\ costInfo = noCostInfo
  /\ contexts \in ContextSeqs
  /\ indexInfo = noIndexInfo
  /\ done = {}
  /\ NoPriorityCall /\ NoClassifyCall /\ NoSteps /\ NoCommand

\* indexInfo = generateIndexRecommendations(contexts, indexThreshold), for
\* any index threshold
CallGenerateIndexRecommendations ==
  /\ "generateIndexRecommendations" \notin done
  /\ \E t \in IndexThresholds :
       /\ indexThreshold' = t
       /\ indexInfo' = generateIndexRecommendations(contexts, t)
  /\ done' = done \cup {"generateIndexRecommendations"}
  /\ UNCHANGED <<plan, threshold, costInfo, contexts>>
  /\ UNCHANGED <<priorityVars, classifyVars, stepVars, cmdVars>>

NextGen == CallGenerateIndexRecommendations

SpecGen == InitGen /\ [][NextGen]_vars

(***************************************************************************)
(* The walker on plans long enough for the lookahead to end by its bound:  *)
(* a scan followed by child lines indented by two spaces, a tab or a       *)
(* single space, one of them a scan node of its own.                       *)
(***************************************************************************)
MaxWalkLines == 6

\* strings.Split(plan, "\n") of the plan texts of at most MaxWalkLines lines
\* that start with the scan
WalkPlans ==
  {<<WalkScanLine>> \o rest :
     rest \in UNION {[1..n -> WalkLines] : n \in 0..(MaxWalkLines - 1)}}

InitWalk ==
  /\ plan \in WalkPlans
  /\ threshold = 0
  /\ indexThreshold = 0
  /\ costInfo = noCostInfo
  /\ contexts = <<>>
  /\ indexInfo = noIndexInfo
  /\ done = {}
  /\ NoPriorityCall /\ NoClassifyCall /\ NoSteps /\ NoCommand

NextWalk == CallAnalyzeIndexOpportunities

SpecWalk == InitWalk /\ [][NextWalk]_vars

(***************************************************************************)
(* extractOperationType alone, on lines that name one operation, several,  *)
(* none, or nothing at all.                                                *)
(***************************************************************************)
\* what a plan line starts with: nothing, or the arrow of a child node
ClassifyPrefixes == {"", "  ->  "}

\* node names: the vocabulary, names that hold an entry of it, names in
\* another case, names outside it, and no name
ClassifyNames ==
  Range(operations) \cup
  {"Parallel Hash Join", "Parallel Bitmap Heap Scan", "HashAggregate",
   "Incremental Sort", "Gather Merge", "seq scan", "Limit", "Result", ""}

\* what follows the name: nothing, blanks, a relation, a cost annotation
ClassifySuffixes ==
  {"", "  ", " on t", "  (cost=0.00..1.00 rows=1 width=4)"}

ClassifyLines ==
  {pre \o name \o suf :
     pre \in ClassifyPrefixes, name \in ClassifyNames, suf \in ClassifySuffixes}

InitClassify ==
  /\ plan = <<"">>
  /\ threshold = 0
  /\ indexThreshold = 0
  /\ costInfo = noCostInfo
  /\ contexts = <<>>
  /\ indexInfo = noIndexInfo
  /\ done = {}
  /\ operationCall \in [line : ClassifyLines, operation : {""}]
  /\ NoPriorityCall /\ NoSteps /\ NoCommand

\* operation = extractOperationType(line)
CallExtractOperationType ==
  /\ "extractOperationType" \notin done
  /\ operationCall' =
       [operationCall EXCEPT !.operation = extractOperationType(operationCall.line)]
  /\ done' = done \cup {"extractOperationType"}
  /\ UNCHANGED <<plan, threshold, indexThreshold, costInfo, contexts, indexInfo>>
  /\ UNCHANGED <<priorityVars, stepVars, cmdVars>>

NextClassify == CallExtractOperationType

SpecClassify == InitClassify /\ [][NextClassify]_vars

(***************************************************************************)
(* calculatePriority alone, on costs around every tier, row estimates      *)
(* around the bonus limit and the three rules.                             *)
(***************************************************************************)
\* costs in hundredths: below, at and above 500, 1000, 5000 and 10000
PriorityCosts ==
  {0, 49999, 50000, 50001, 99999, 100000, 100001, 499999, 500000, 500001,
   999999, 1000000, 1000001, 2000000}

PriorityRows == {0, 100000, 100001, 500000}

\* the operationType argument the three rules pass
PriorityRules == {"filter", "join", "sort"}

InitPriority ==
  /\ plan = <<"">>
  /\ threshold = 0
  /\ indexThreshold = 0
  /\ costInfo = noCostInfo
  /\ contexts = <<>>
  /\ indexInfo = noIndexInfo
  /\ done = {}
  /\ priorityCall \in
       [cost : PriorityCosts, rows : PriorityRows,
        operationType : PriorityRules, priority : {0}]
  /\ NoClassifyCall /\ NoSteps /\ NoCommand

\* priority = calculatePriority(cost, rows, operationType)
CallCalculatePriority ==
  /\ "calculatePriority" \notin done
  /\ priorityCall' =
       [priorityCall EXCEPT !.priority =
          calculatePriority(priorityCall.cost, priorityCall.rows,
                            priorityCall.operationType)]
  /\ done' = done \cup {"calculatePriority"}
  /\ UNCHANGED <<plan, threshold, indexThreshold, costInfo, contexts, indexInfo>>
  /\ UNCHANGED <<classifyVars, stepVars, cmdVars>>

NextPriority == CallCalculatePriority

SpecPriority == InitPriority /\ [][NextPriority]_vars

(***************************************************************************)
(* The two analyzers line by line.  costPos and walkPos are the indices of *)
(* the next line each loop reads: 0 before the call, Len(plan) + 1 after   *)
(* the loop.  Each analyzer works on its own strings.Split(plan, "\n").    *)
(***************************************************************************)
StepLines == {SeqScanUsersLine, FilterStatusLine, HashJoinLine}

StepPlans == UNION {[1..n -> StepLines] : n \in 1..MaxLines}

InitSteps ==
  /\ plan \in StepPlans
  /\ threshold = 0
  /\ indexThreshold = 0
  /\ costInfo = noCostInfo
  /\ contexts = <<>>
  /\ indexInfo = noIndexInfo
  /\ done = {}
  /\ costPos = 0
  /\ walkPos = 0
  /\ NoPriorityCall /\ NoClassifyCall /\ NoCommand

\* parseCost is entered: costInfo := &CostInfo{..., ThresholdValue: threshold}
EnterParseCost ==
  /\ costPos = 0
  /\ \E t \in Thresholds :
       /\ threshold' = t
       /\ costInfo' = [TotalCost |-> 0, ExpensiveOps |-> <<>>,
                       ExceedsLimit |-> FALSE, ThresholdValue |-> t]
  /\ costPos' = 1
  /\ UNCHANGED <<plan, indexThreshold, contexts, indexInfo, done, walkPos>>
  /\ UNCHANGED <<priorityVars, classifyVars, cmdVars>>

\* ParseCostStep storing the trimmed line back into the plan text
ParseCostStepInPlace ==
  /\ costPos \in 1..Len(plan)
  /\ costInfo' = parseCostLine(costInfo, plan[costPos], threshold)
  /\ plan' = [plan EXCEPT ![costPos] = TrimSpace(plan[costPos])]
  /\ costPos' = costPos + 1
  /\ UNCHANGED <<threshold, indexThreshold, contexts, indexInfo, done, walkPos>>
  /\ UNCHANGED <<priorityVars, classifyVars, cmdVars>>

\* one iteration of the loop of parseCost
ParseCostStep ==
  /\ costPos \in 1..Len(plan)
  /\ costInfo' = parseCostLine(costInfo, plan[costPos], threshold)
  /\ costPos' = costPos + 1
  /\ UNCHANGED <<plan, threshold, indexThreshold, contexts, indexInfo, done, walkPos>>
  /\ UNCHANGED <<priorityVars, classifyVars, cmdVars>>

\* the end of parseCost: ExceedsLimit is set and costInfo returned
ReturnParseCost ==
  /\ costPos = Len(plan) + 1
  /\ "parseCost" \notin done
  /\ costInfo' = setExceedsLimit(costInfo, threshold)
  /\ done' = done \cup {"parseCost"}
  /\ UNCHANGED <<plan, threshold, indexThreshold, contexts, indexInfo>>
  /\ UNCHANGED <<priorityVars, classifyVars, stepVars, cmdVars>>

\* analyzeIndexOpportunities enters parseExplainForIndexes
EnterParseExplainForIndexes ==
  /\ walkPos = 0
  /\ \E t \in IndexThresholds : indexThreshold' = t
  /\ contexts' = <<>>
  /\ walkPos' = 1
  /\ UNCHANGED <<plan, threshold, costInfo, indexInfo, done, costPos>>
  /\ UNCHANGED <<priorityVars, classifyVars, cmdVars>>

\* one iteration of the loop of parseExplainForIndexes, look-ahead included
ParseExplainStep ==
  /\ walkPos \in 1..Len(plan)
  /\ contexts' = contexts \o anchorContext(plan, walkPos, indexThreshold)
  /\ walkPos' = walkPos + 1
  /\ UNCHANGED <<plan, threshold, indexThreshold, costInfo, indexInfo, done, costPos>>
  /\ UNCHANGED <<priorityVars, classifyVars, cmdVars>>

\* the contexts go to generateIndexRecommendations and its result is returned
ReturnAnalyzeIndexOpportunities ==
  /\ walkPos = Len(plan) + 1
  /\ "analyzeIndexOpportunities" \notin done
  /\ indexInfo' = generateIndexRecommendations(contexts, indexThreshold)
  /\ done' = done \cup {"analyzeIndexOpportunities"}
  /\ UNCHANGED <<plan, threshold, indexThreshold, costInfo, contexts>>
  /\ UNCHANGED <<priorityVars, classifyVars, stepVars, cmdVars>>

NextSteps ==
  \/ EnterParseCost
  \/ ParseCostStep
  \/ ReturnParseCost
  \/ EnterParseExplainForIndexes
  \/ ParseExplainStep
  \/ ReturnAnalyzeIndexOpportunities

SpecSteps == InitSteps /\ [][NextSteps]_vars

(***************************************************************************)
(* Command batch: the SQL file.  A file is [exists, lines], lines being    *)
(* what bufio.Scanner yields.                                              *)
(***************************************************************************)
\* the query a completed buffer gives: trimmed, one trailing ";" removed
completeQuery(currentQuery) == TrimSuffix(TrimSpace(currentQuery), ";")

\* if query != "" { queries = append(queries, query) }
appendQuery(qs, q) == IF q # "" THEN Append(qs, q) ELSE qs

\* a line that is not skipped: it is written to the buffer with a space, and
\* a ";" at its end completes the query
addLine(acc, line) ==
  IF HasSuffix(line, ";")
  THEN [queries      |-> appendQuery(acc.queries,
                                     completeQuery(acc.currentQuery \o line \o " ")),
        currentQuery |-> ""]
  ELSE [acc EXCEPT !.currentQuery = acc.currentQuery \o line \o " "]

\* the body of the loop over the lines, line being the trimmed text
scanLine(acc, line) ==
  IF line = "" \/ HasPrefix(line, "--") \/ HasPrefix(line, "/*") THEN acc
  ELSE addLine(acc, line)

RECURSIVE scanLoop(_, _, _)
scanLoop(acc, lines, k) ==
  IF k > Len(lines) THEN acc
  ELSE scanLoop(scanLine(acc, TrimSpace(lines[k])), lines, k + 1)

\* the last query when the file does not end with a semicolon
lastQuery(acc) ==
  IF Len(acc.currentQuery) > 0
  THEN appendQuery(acc.queries, completeQuery(acc.currentQuery))
  ELSE acc.queries

parseSQLFile(file) ==
  IF ~file.exists THEN [queries |-> <<>>, err |-> "unable to open SQL file"]
  ELSE [queries |-> lastQuery(scanLoop([queries |-> <<>>, currentQuery |-> ""],
                                       file.lines, 1)),
        err     |-> ""]

\* lines of a SQL file
SQLLines ==
  {"SELECT 1;", "SELECT 2", "  FROM t;  ", "", "-- comment", "SELECT 3; SELECT 4;"}

SQLFiles ==
  {[exists |-> TRUE, lines |-> ls] :
     ls \in UNION {[1..n -> SQLLines] : n \in 0..MaxSQLLines}}

NoFile == [exists |-> FALSE, lines |-> <<>>]

InitSQLFile ==
  /\ plan = <<"">>
  /\ threshold = 0
  /\ indexThreshold = 0
  /\ costInfo = noCostInfo
  /\ contexts = <<>>
  /\ indexInfo = noIndexInfo
  /\ done = {}
  /\ NoPriorityCall /\ NoClassifyCall /\ NoSteps
  /\ sqlFile \in SQLFiles
  /\ queries = <<>>
  /\ flags = <<>>
  /\ env = <<>>
  /\ query = <<>>
  /\ stdout = <<>>
  /\ batchReport = <<>>
  /\ sent = <<>>
  /\ pc = ""

\* queries, err := parseSQLFile(sqlFile)
CallParseSQLFile ==
  /\ "parseSQLFile" \notin done
  /\ queries' = parseSQLFile(sqlFile).queries
  /\ done' = done \cup {"parseSQLFile"}
  /\ UNCHANGED <<plan, threshold, indexThreshold, costInfo, contexts, indexInfo>>
  /\ UNCHANGED <<priorityVars, classifyVars, stepVars>>
  /\ UNCHANGED <<sqlFile, flags, env, query, stdout, batchReport, sent, pc>>

NextSQLFile == CallParseSQLFile

SpecSQLFile == InitSQLFile /\ [][NextSQLFile]_vars

(***************************************************************************)
(* Commands analyze and batch.  flags holds the flags and arguments of the *)
(* command line, env what the command finds around it (configuration file, *)
(* query file, standard input, what the user types).  stdout holds the     *)
(* messages about costs, indexes and failures, in print order.             *)
(***************************************************************************)
\* var costInfo *CostInfo before any assignment
NilCostInfo == <<>>

\* the --threshold flag, or the configured default when the flag is not set
effectiveThreshold(fl, e) ==
  IF ~fl.thresholdChanged /\ e.configThreshold > 0 THEN e.configThreshold
  ELSE fl.threshold

\* if threshold > 0 { fmt.Printf("Cost threshold: ...") }
startMessages(t) == IF t > 0 THEN <<"Cost threshold">> ELSE <<>>

\* a query read from a source, or the error msg when it is empty
enteredQuery(q, msg) ==
  IF q = "" THEN [query |-> "", err |-> msg] ELSE [query |-> q, err |-> ""]

\* a trimmed line of the editor's file, kept unless blank or a comment
keepQueryLine(line) ==
  IF ~HasPrefix(line, "--") /\ line # "" THEN <<line>> ELSE <<>>

RECURSIVE queryLinesOf(_)
queryLinesOf(lines) ==
  IF lines = <<>> THEN <<>>
  ELSE keepQueryLine(TrimSpace(lines[1])) \o queryLinesOf(Tail(lines))

getQueryFromEditor(e) ==
  enteredQuery(TrimSpace(Join(queryLinesOf(e.editorLines), "\n")),
               "no query entered in editor")

getQueryFromPrompt(e) ==
  enteredQuery(TrimSpace(Join(e.promptLines, "\n")), "no query entered")

\* the file named by --file
queryFromFile(e) ==
  IF e.fileMissing THEN [query |-> "", err |-> "failed to read file"]
  ELSE enteredQuery(TrimSpace(e.fileContent), "file is empty")

getQueryInput(fl, e) ==
  IF fl.file # "" THEN queryFromFile(e)
  ELSE IF e.stdinPiped THEN enteredQuery(TrimSpace(e.stdin), "stdin input is empty")
  ELSE IF Len(fl.args) > 0 THEN [query |-> fl.args[1], err |-> ""]
  ELSE IF fl.editor THEN getQueryFromEditor(e)
  ELSE getQueryFromPrompt(e)

displayCostAlert(ci) ==
  IF ~ci.ExceedsLimit THEN <<>> ELSE <<"COST THRESHOLD ALERT">>

\* what runExplain prints for a CostInfo
costMessages(ci) ==
  IF ci.ExceedsLimit THEN displayCostAlert(ci)
  ELSE <<"Query cost is below threshold">>

\* the cost analysis of runExplain, made also with a threshold of 0
costAnalysisFromZero(lines, t) ==
  IF t >= 0
  THEN [costInfo |-> parseCost(lines, t), printed |-> costMessages(parseCost(lines, t))]
  ELSE [costInfo |-> NilCostInfo, printed |-> <<>>]

\* the cost analysis of runExplain: the CostInfo kept for the report and the
\* messages printed
costAnalysis(lines, t) ==
  IF t > 0
  THEN [costInfo |-> parseCost(lines, t), printed |-> costMessages(parseCost(lines, t))]
  ELSE [costInfo |-> NilCostInfo, printed |-> <<>>]

displayIndexRecommendations(info) ==
  IF info.TotalFound = 0 THEN <<>> ELSE <<"INDEX RECOMMENDATIONS">>

\* what runExplain prints for an IndexRecommendationInfo
indexMessages(info) ==
  IF info.TotalFound > 0 THEN displayIndexRecommendations(info)
  ELSE <<"No index recommendations">>

\* the index analysis of runExplain: the messages printed
indexAnalysis(lines, fl) ==
  IF fl.recommendIndexes
  THEN indexMessages(analyzeIndexOpportunities(lines, fl.indexThreshold))
  ELSE <<>>

\* what the planner answers to a query: an error, or the lines of a plan
PlannerError == <<>>

PlannerPlans ==
  {<<SeqScanUsersLine, FilterStatusLine>>, <<HashJoinLine, HashCondLine>>}

PlannerOutcomes == {PlannerError} \cup PlannerPlans

\* --threshold and the configured default, in hundredths: the flag left at
\* its default 0, or set to -1.00, 0 or 500.00; no default or 1000.00
ThresholdSettings ==
  {ts \in [threshold : {-100, 0, 50000}, thresholdChanged : BOOLEAN,
           configThreshold : {0, 100000}] :
     ~ts.thresholdChanged => ts.threshold = 0}

\* --file and the file it names
FileSettings ==
  {[file |-> "", fileMissing |-> FALSE, fileContent |-> ""],
   [file |-> "query.sql", fileMissing |-> TRUE, fileContent |-> ""],
   [file |-> "query.sql", fileMissing |-> FALSE, fileContent |-> ""],
   [file |-> "query.sql", fileMissing |-> FALSE, fileContent |-> "  SELECT 'file'  "]}

\* standard input: a terminal, or a pipe with its content
StdinSettings ==
  {[stdinPiped |-> FALSE, stdin |-> ""],
   [stdinPiped |-> TRUE, stdin |-> ""],
   [stdinPiped |-> TRUE, stdin |-> "  SELECT 'stdin'  "]}

\* what the user leaves in the editor's file and types at the prompt
editorPlaceholder == "-- Enter your SQL query below, then save and close the editor"

TypedSettings ==
  {[editorLines |-> <<editorPlaceholder, "">>, promptLines |-> <<>>],
   [editorLines |-> <<editorPlaceholder, "", "SELECT 'editor'">>,
    promptLines |-> <<"SELECT 'prompt'">>]}

analyzeFlags(ts, fs, editor, args, recommend) ==
  [command          |-> "analyze",
   file             |-> fs.file,
   editor           |-> editor,
   args             |-> args,
   threshold        |-> ts.threshold,
   thresholdChanged |-> ts.thresholdChanged,
   recommendIndexes |-> recommend,
   indexThreshold   |-> 10000,
   continueOnError  |-> TRUE]

batchFlags(ts, recommend, continueOnError) ==
  [command          |-> "batch",
   file             |-> "",
   editor           |-> FALSE,
   args             |-> <<"queries.sql">>,
   threshold        |-> ts.threshold,
   thresholdChanged |-> ts.thresholdChanged,
   recommendIndexes |-> recommend,
   indexThreshold   |-> 10000,
   continueOnError  |-> continueOnError]

environment(ts, fs, ss, typed) ==
  [configThreshold |-> ts.configThreshold,
   fileMissing     |-> fs.fileMissing,
   fileContent     |-> fs.fileContent,
   stdinPiped      |-> ss.stdinPiped,
   stdin           |-> ss.stdin,
   editorLines     |-> typed.editorLines,
   promptLines     |-> typed.promptLines]

\* pg_explain analyze, with any flags, argument and environment
InitAnalyze ==
  /\ \E ts \in ThresholdSettings, fs \in FileSettings, ss \in StdinSettings,
        typed \in TypedSettings, editor \in BOOLEAN, recommend \in BOOLEAN,
        args \in {<<>>, <<"SELECT 'argument'">>} :
       /\ flags = analyzeFlags(ts, fs, editor, args, recommend)
       /\ env = environment(ts, fs, ss, typed)
  /\ sqlFile = NoFile

\* lines of the SQL file of a batch: one query each
BatchLines == {"SELECT 1;", "SELECT 2;"}

BatchFiles ==
  {NoFile} \cup
  {[exists |-> TRUE, lines |-> ls] :
     ls \in UNION {[1..n -> BatchLines] : n \in 0..MaxQueries}}

\* pg_explain batch queries.sql, with any flags and any file
InitBatch ==
  /\ \E ts \in ThresholdSettings, recommend \in BOOLEAN, continueOnError \in BOOLEAN :
       /\ flags = batchFlags(ts, recommend, continueOnError)
       /\ env = environment(ts, [fileMissing |-> FALSE, fileContent |-> ""],
                            [stdinPiped |-> FALSE, stdin |-> ""],
                            [editorLines |-> <<>>, promptLines |-> <<>>])
  /\ sqlFile \in BatchFiles

InitCmd ==
  /\ plan = <<"">>
  /\ threshold = 0
  /\ indexThreshold = 0
  /\ costInfo = NilCostInfo
  /\ contexts = <<>>
  /\ indexInfo = noIndexInfo
  /\ done = {}
  /\ NoPriorityCall /\ NoClassifyCall /\ NoSteps
  /\ InitAnalyze \/ InitBatch
  /\ queries = <<>>
  /\ query = <<>>
  /\ stdout = <<>>
  /\ batchReport = <<>>
  /\ sent = <<>>
  /\ pc = "start"

\* runExplain up to the start message: the query is read and the threshold
\* settled; without a query the command exits
RunExplainGetQuery ==
  /\ pc = "start"
  /\ flags.command = "analyze"
  /\ query' = getQueryInput(flags, env)
  /\ IF query'.err # ""
     THEN /\ pc' = "exit"
          /\ stdout' = Append(stdout, "Failed to get query input")
          /\ UNCHANGED threshold
     ELSE /\ pc' = "plan"
          /\ threshold' = effectiveThreshold(flags, env)
          /\ stdout' = stdout \o startMessages(effectiveThreshold(flags, env))
  /\ UNCHANGED <<plan, indexThreshold, costInfo, contexts, indexInfo, done>>
  /\ UNCHANGED <<priorityVars, classifyVars, stepVars>>
  /\ UNCHANGED <<sqlFile, queries, flags, env, batchReport, sent>>

\* the rest of runExplain: the planner answers, the plan is analyzed and
\* the report written with the CostInfo
RunExplainAnalyze ==
  /\ pc = "plan"
  /\ \E outcome \in PlannerOutcomes :
       /\ sent' = Append(sent, [query |-> query.query,
                                failed |-> outcome = PlannerError])
       /\ IF outcome = PlannerError
          THEN /\ pc' = "exit"
               /\ stdout' = Append(stdout, "Failed to analyze query")
               /\ UNCHANGED <<plan, costInfo>>
          ELSE /\ pc' = "done"
               /\ plan' = outcome
               /\ costInfo' = costAnalysis(outcome, threshold).costInfo
               /\ stdout' = stdout \o costAnalysis(outcome, threshold).printed
                                   \o indexAnalysis(outcome, flags)
  /\ UNCHANGED <<threshold, indexThreshold, contexts, indexInfo, done>>
  /\ UNCHANGED <<priorityVars, classifyVars, stepVars>>
  /\ UNCHANGED <<sqlFile, queries, flags, env, query, batchReport>>

\* BatchReport{Results: make([]BatchResult, 0)}
newBatchReport ==
  [Results |-> <<>>, SuccessCount |-> 0, FailureCount |-> 0, TotalQueries |-> 0]

\* the BatchResult of a query the planner rejected
failedResult(queryNum, q) ==
  [QueryNumber |-> queryNum, Query |-> q, Error |-> "planner error",
   ExecutionPlan |-> <<>>, CostAnalysis |-> NilCostInfo]

\* what runBatch prints for the CostInfo of a query
batchCostMessages(ci) ==
  IF ci.ExceedsLimit THEN <<"exceeds cost threshold">> ELSE <<"cost">>

\* the cost analysis of runBatch: the CostInfo attached to the result and
\* the messages printed
batchCostAnalysis(lines, t) ==
  IF t > 0
  THEN [costInfo |-> parseCost(lines, t), printed |-> batchCostMessages(parseCost(lines, t))]
  ELSE [costInfo |-> NilCostInfo, printed |-> <<"analyzed successfully">>]

\* the BatchResult of a query with a plan
succeededResult(queryNum, q, lines, t) ==
  [QueryNumber |-> queryNum, Query |-> q, Error |-> "",
   ExecutionPlan |-> lines, CostAnalysis |-> batchCostAnalysis(lines, t).costInfo]

batchIndexMessages(info) ==
  IF info.TotalFound > 0 THEN <<"Found index recommendations">> ELSE <<>>

batchIndexAnalysis(lines, fl) ==
  IF fl.recommendIndexes
  THEN batchIndexMessages(analyzeIndexOpportunities(lines, fl.indexThreshold))
  ELSE <<>>

\* the loop goes on after every failure
breaksLoopNever(failed, continueOnError) == FALSE

\* if !continueOnError { break }, reached on a planner error
breaksLoop(failed, continueOnError) == failed /\ ~continueOnError

\* reportAfter appending the result before the loop is left
reportAfterAppended(report, result, failed, broke) ==
  [report EXCEPT
     !.FailureCount = IF failed THEN @ + 1 ELSE @,
     !.SuccessCount = IF failed THEN @ ELSE @ + 1,
     !.Results      = Append(@, result)]

\* the report after a query: the counters, and the result appended unless
\* the loop was left
reportAfter(report, result, failed, broke) ==
  [report EXCEPT
     !.FailureCount = IF failed THEN @ + 1 ELSE @,
     !.SuccessCount = IF failed THEN @ ELSE @ + 1,
     !.Results      = IF broke THEN @ ELSE Append(@, result)]

\* runBatch up to the loop: the threshold is settled and the file parsed
RunBatchParse ==
  /\ pc = "start"
  /\ flags.command = "batch"
  /\ threshold' = effectiveThreshold(flags, env)
  /\ LET parsed == parseSQLFile(sqlFile)
     IN  /\ queries' = parsed.queries
         /\ IF parsed.err # ""
            THEN /\ pc' = "exit"
                 /\ stdout' = stdout \o startMessages(effectiveThreshold(flags, env))
                                     \o <<"Failed to read SQL file">>
                 /\ UNCHANGED batchReport
            ELSE IF Len(parsed.queries) = 0
            THEN /\ pc' = "empty"
                 /\ stdout' = stdout \o startMessages(effectiveThreshold(flags, env))
                                     \o <<"No valid SQL queries found in file">>
                 /\ UNCHANGED batchReport
            ELSE /\ pc' = "loop"
                 /\ stdout' = stdout \o startMessages(effectiveThreshold(flags, env))
                 /\ batchReport' = newBatchReport
  /\ UNCHANGED <<plan, indexThreshold, costInfo, contexts, indexInfo, done>>
  /\ UNCHANGED <<priorityVars, classifyVars, stepVars>>
  /\ UNCHANGED <<sqlFile, flags, env, query, sent>>

\* one iteration of for i, query := range queries
RunBatchQuery ==
  /\ pc = "loop"
  /\ LET queryNum == Len(sent) + 1
         q == queries[queryNum]
     IN  \E outcome \in PlannerOutcomes :
           LET failed == outcome = PlannerError
               broke  == breaksLoop(failed, flags.continueOnError)
               result == IF failed THEN failedResult(queryNum, q)
                         ELSE succeededResult(queryNum, q, outcome, threshold)
           IN  /\ sent' = Append(sent, [query |-> q, failed |-> failed])
               /\ batchReport' = reportAfter(batchReport, result, failed, broke)
               /\ stdout' =
                    IF failed THEN Append(stdout, "Query failed")
                    ELSE stdout \o batchCostAnalysis(outcome, threshold).printed
                                \o batchIndexAnalysis(outcome, flags)
               /\ pc' = IF broke \/ queryNum = Len(queries) THEN "report" ELSE "loop"
  /\ UNCHANGED <<plan, threshold, indexThreshold, costInfo, contexts, indexInfo, done>>
  /\ UNCHANGED <<priorityVars, classifyVars, stepVars>>
  /\ UNCHANGED <<sqlFile, queries, flags, env, query>>

\* after the loop: batchReport.TotalQueries = len(queries) and the summary
RunBatchFinish ==
  /\ pc = "report"
  /\ batchReport' = [batchReport EXCEPT !.TotalQueries = Len(queries)]
  /\ stdout' = Append(stdout, "Batch Analysis Complete")
  /\ pc' = "done"
  /\ UNCHANGED <<plan, threshold, indexThreshold, costInfo, contexts, indexInfo, done>>
  /\ UNCHANGED <<priorityVars, classifyVars, stepVars>>
  /\ UNCHANGED <<sqlFile, queries, flags, env, query, sent>>

NextCmd ==
  \/ RunExplainGetQuery
  \/ RunExplainAnalyze
  \/ RunBatchParse
  \/ RunBatchQuery
  \/ RunBatchFinish

SpecCmd == InitCmd /\ [][NextCmd]_vars

(***************************************************************************)
(* Properties of the cost extractor (specification Spec).                  *)
(***************************************************************************)
\* the high value of the cost annotation of each plan line, as the source
\* parses it: err when the line has no annotation or an unparseable one
HighCostOf ==
  [l \in MemoLines |->
     IF Len(costRegex(l)) >= 3 THEN ParseFloat(costRegex(l)[3])
     ELSE [val |-> 0, err |-> TRUE]]

\* line carries a cost annotation the source can parse
Annotated(line) == ~HighCostOf[line].err

\* the high value, in hundredths, of the annotation of an annotated line
HighCost(line) == HighCostOf[line].val

\* indices of the annotated lines of the plan
AnnotatedLines == {k \in 1..Len(plan) : Annotated(plan[k])}

\* the high values of all annotated lines of the plan
AnnotatedCosts == {HighCost(plan[k]) : k \in AnnotatedLines}

\* C1: once parseCost has returned, TotalCost is the maximum high value over
\* all lines that carry a cost annotation, and 0 when no line carries one.
C1_TotalCostIsMaxHigh ==
  "parseCost" \in done =>
    IF AnnotatedCosts = {} THEN costInfo.TotalCost = 0
    ELSE /\ costInfo.TotalCost \in AnnotatedCosts
         /\ \A c \in AnnotatedCosts : c <= costInfo.TotalCost

\* three annotated lines whose largest cost is on the middle line: the result
\* is neither the first nor the last cost, nor their sum
C1_Witness ==
  /\ "parseCost" \in done
  /\ Len(plan) = 3
  /\ AnnotatedLines = {1, 2, 3}
  /\ HighCost(plan[2]) > HighCost(plan[1])
  /\ HighCost(plan[2]) > HighCost(plan[3])
  /\ HighCost(plan[1]) > 0
  /\ HighCost(plan[3]) > 0
  /\ costInfo.TotalCost = HighCost(plan[2])

\* indices of the annotated lines whose cost reaches the threshold
ExpensiveLines == {k \in AnnotatedLines : HighCost(plan[k]) >= threshold}

\* the n-th smallest index of ExpensiveLines
NthExpensiveLine(n) ==
  CHOOSE k \in ExpensiveLines : Cardinality({m \in ExpensiveLines : m <= k}) = n

\* C2: ExpensiveOps is exactly the subsequence of the annotated lines whose
\* cost is >= the threshold: one element per such line, in line order, each
\* with that line's cost and trimmed text.
C2_ExpensiveOpsIsSubsequence ==
  "parseCost" \in done =>
    /\ Len(costInfo.ExpensiveOps) = Cardinality(ExpensiveLines)
    /\ \A n \in 1..Len(costInfo.ExpensiveOps) :
         /\ costInfo.ExpensiveOps[n].Cost >= threshold
         /\ costInfo.ExpensiveOps[n].Cost = HighCost(plan[NthExpensiveLine(n)])
         /\ costInfo.ExpensiveOps[n].Line = TrimSpace(plan[NthExpensiveLine(n)])

\* two expensive operations in rising cost order (so not sorted by falling
\* cost), one of them exactly at the threshold or above it, and an annotated
\* line below the threshold that is left out
C2_Witness ==
  /\ "parseCost" \in done
  /\ Len(costInfo.ExpensiveOps) = 2
  /\ costInfo.ExpensiveOps[1].Cost < costInfo.ExpensiveOps[2].Cost
  /\ \E k \in AnnotatedLines : HighCost(plan[k]) < threshold

\* C3: once parseCost has returned, ExceedsLimit = (TotalCost >= threshold);
\* with threshold 0 ExceedsLimit is true for every plan.
C3_ExceedsLimit ==
  "parseCost" \in done =>
    /\ costInfo.ExceedsLimit = (costInfo.TotalCost >= threshold)
    /\ costInfo.ThresholdValue = threshold
    /\ threshold = 0 => costInfo.ExceedsLimit

\* threshold 0 on a plan without any cost annotation: the alert flag is set
\* although the total cost is 0
C3_Witness ==
  /\ "parseCost" \in done
  /\ threshold = 0
  /\ AnnotatedLines = {}
  /\ costInfo.TotalCost = 0
  /\ costInfo.ExceedsLimit

\* the costs of the expensive operations returned
ExpensiveCosts ==
  {costInfo.ExpensiveOps[k].Cost : k \in 1..Len(costInfo.ExpensiveOps)}

\* C25: once parseCost has returned with a threshold above 0, ExceedsLimit
\* is set exactly when ExpensiveOps is not empty; whenever ExpensiveOps is
\* not empty TotalCost is the largest cost in it; ExceedsLimit is set with
\* an empty ExpensiveOps only under a threshold of 0 or less, on a plan
\* without any cost annotation.
C25_ExceedsIffExpensive ==
  "parseCost" \in done =>
    /\ threshold > 0 =>
         (costInfo.ExceedsLimit <=> costInfo.ExpensiveOps # <<>>)
    /\ costInfo.ExpensiveOps # <<>> =>
         /\ costInfo.TotalCost \in ExpensiveCosts
         /\ \A c \in ExpensiveCosts : c <= costInfo.TotalCost
    /\ (costInfo.ExceedsLimit /\ costInfo.ExpensiveOps = <<>>) =>
         (threshold <= 0 /\ AnnotatedLines = {})

\* parseCost has returned with a positive threshold on a plan with one
\* expensive line and a line below the threshold
C25_Witness ==
  /\ "parseCost" \in done
  /\ threshold > 0
  /\ costInfo.ExceedsLimit
  /\ Len(costInfo.ExpensiveOps) = 1
  /\ \E k \in AnnotatedLines : HighCost(plan[k]) < threshold

\* shape of a CostInfo value
IsCostInfo(ci) ==
  /\ DOMAIN ci = {"TotalCost", "ExpensiveOps", "ExceedsLimit", "ThresholdValue"}
  /\ ci.TotalCost \in Nat
  /\ ci.ExceedsLimit \in BOOLEAN
  /\ \A n \in 1..Len(ci.ExpensiveOps) :
       DOMAIN ci.ExpensiveOps[n] = {"Operation", "Cost", "Line"}

\* shape of an IndexRecommendationInfo value
IsIndexInfo(info) ==
  /\ DOMAIN info = {"Recommendations", "TotalFound", "HighPriority", "ThresholdUsed"}
  /\ info.TotalFound \in Nat
  /\ info.HighPriority \in Nat
  /\ \A n \in 1..Len(info.Recommendations) :
       DOMAIN info.Recommendations[n] =
         {"TableName", "Columns", "IndexType", "Reason", "OperationType",
          "OperationCost", "CreateStatement", "Priority"}

\* C4: both analyzers return a result value for every input; when no line
\* carries a cost annotation the CostInfo has TotalCost 0 and no expensive
\* operation and the IndexRecommendationInfo has no recommendation.
C4_NoFailureOutcome ==
  /\ "parseCost" \in done =>
       /\ IsCostInfo(costInfo)
       /\ AnnotatedLines = {} =>
            costInfo.TotalCost = 0 /\ costInfo.ExpensiveOps = <<>>
  /\ "analyzeIndexOpportunities" \in done =>
       /\ IsIndexInfo(indexInfo)
       /\ AnnotatedLines = {} =>
            /\ contexts = <<>>
            /\ indexInfo.Recommendations = <<>>
            /\ indexInfo.TotalFound = 0
            /\ indexInfo.HighPriority = 0

\* both analyzers have returned on a plan that holds a malformed cost
\* annotation and a blank line and no parseable annotation, with a threshold
\* that a cost of 0 reaches
C4_Witness ==
  /\ done = {"parseCost", "analyzeIndexOpportunities"}
  /\ AnnotatedLines = {}
  /\ \E k \in 1..Len(plan) : Contains(plan[k], "cost=")
  /\ \E k \in 1..Len(plan) : plan[k] = ""
  /\ threshold <= 0
  /\ costInfo.ExpensiveOps = <<>>
  /\ indexInfo.TotalFound = 0

(***************************************************************************)
(* Properties of the rules, end to end (specification Spec).               *)
(***************************************************************************)
Recs == indexInfo.Recommendations

\* some returned recommendation is for tableName(columns)
Recommended(tableName, columns) ==
  \E m \in 1..Len(Recs) :
    Recs[m].TableName = tableName /\ Recs[m].Columns = columns

\* tableName(column) passes the validation of the generator
ValidTarget(tableName, column) ==
  /\ tableName # ""
  /\ ~HasPrefix(tableName, "pg_catalog")
  /\ ~HasPrefix(tableName, "information_schema")
  /\ Len(column) >= 1
  /\ Char(column, 1) \notin Digits
  /\ \A q \in 1..Len(column) : Char(column, q) \in WordChars

IsJoinContext(ctx) ==
  /\ Contains(ctx.OperationType, "Hash Join") \/ Contains(ctx.OperationType, "Merge Join")
  /\ Len(ctx.JoinColumns) > 0

\* C5: every context of a Hash Join / Merge Join with join columns yields a
\* recommendation table(column) for each of its "table.column" pairs, the
\* table being the one of the pair; the Hash Join example with index
\* threshold 0 yields exactly orders(user_id) and users(id), priority 3 each.
C5_JoinRule ==
  "analyzeIndexOpportunities" \in done =>
    /\ \A n \in 1..Len(contexts) :
         IsJoinContext(contexts[n]) =>
           \A k \in 1..Len(contexts[n].JoinColumns) :
             LET parts == Split(contexts[n].JoinColumns[k], ".")
             IN  ValidTarget(parts[1], parts[2]) =>
                   Recommended(parts[1], <<parts[2]>>)
    /\ (plan = <<HashJoinLine, HashCondLine>> /\ indexThreshold = 0) =>
         /\ Len(Recs) = 2
         /\ Recommended("orders", <<"user_id">>)
         /\ Recommended("users", <<"id">>)
         /\ \A m \in 1..Len(Recs) : Recs[m].Priority = 3

IsFilterContext(ctx) ==
  Contains(ctx.OperationType, "Seq Scan") /\ Len(ctx.FilterColumns) > 0

\* the first context that is a filtered sequential scan of tableName with
\* col among its filter columns
FirstFilterContext(tableName, col) ==
  LET ms == {m \in 1..Len(contexts) :
               /\ IsFilterContext(contexts[m])
               /\ contexts[m].TableName = tableName
               /\ \E q \in 1..Len(contexts[m].FilterColumns) :
                    contexts[m].FilterColumns[q] = col}
  IN  contexts[CHOOSE m \in ms : \A x \in ms : m <= x]

\* C6: every context of a Seq Scan with filter columns yields, for each valid
\* filter column, exactly one single-column BTREE recommendation on the
\* context's table with the filter reason and the cost of the first context
\* that asked for it; the Seq Scan example with index threshold 0 yields one
\* context (users, [status], 425.50) and exactly one recommendation
\* users(status) of priority 1.
C6_FilterRule ==
  "analyzeIndexOpportunities" \in done =>
    /\ \A n \in 1..Len(contexts) :
         (IsFilterContext(contexts[n]) /\ contexts[n].TableName # "") =>
           \A k \in 1..Len(contexts[n].FilterColumns) :
             LET col   == contexts[n].FilterColumns[k]
                 tbl   == contexts[n].TableName
                 first == FirstFilterContext(tbl, col)
                 ms    == {m \in 1..Len(Recs) :
                             Recs[m].TableName = tbl /\ Recs[m].Columns = <<col>>}
             IN  ValidTarget(tbl, col) =>
                   /\ Cardinality(ms) = 1
                   /\ \A m \in ms :
                        /\ Recs[m].IndexType = "BTREE"
                        /\ Recs[m].Reason =
                             "Sequential scan with filter on '" \o col \o "'"
                        /\ Recs[m].OperationCost = first.Cost
                        /\ Recs[m].Priority =
                             calculatePriority(first.Cost, first.RowsEstimate, "filter")
    /\ (plan = <<SeqScanUsersLine, FilterStatusLine>> /\ indexThreshold = 0) =>
         /\ Len(contexts) = 1
         /\ contexts[1].TableName = "users"
         /\ contexts[1].FilterColumns = <<"status">>
         /\ contexts[1].Cost = 42550
         /\ Len(Recs) = 1
         /\ Recs[1].TableName = "users"
         /\ Recs[1].Columns = <<"status">>
         /\ Recs[1].IndexType = "BTREE"
         /\ Recs[1].CreateStatement =
              "CREATE INDEX idx_users_status ON users USING BTREE (status);"
         /\ Recs[1].Priority = 1

\* the Seq Scan example has been analyzed
C6_Witness ==
  /\ "analyzeIndexOpportunities" \in done
  /\ plan = <<SeqScanUsersLine, FilterStatusLine>>
  /\ indexThreshold = 0
  /\ Len(Recs) = 1
  /\ Recs[1].Reason = "Sequential scan with filter on 'status'"

\* the lines that carry a parseable cost annotation whose high cost reaches
\* the index threshold
AnchorLines ==
  {k \in AnnotatedLines : HighCost(plan[k]) >= indexThreshold}

\* the n-th of them in scan order
NthAnchorLine(n) ==
  CHOOSE k \in AnchorLines :
    Cardinality({x \in AnchorLines : x < k}) = n - 1

\* C14: the walker returns one context per line that carries a parseable
\* cost annotation with high cost >= the index threshold and none for any
\* other line; the n-th context is the one of the n-th such line in scan
\* order, with that line trimmed as its line and its high cost as its cost.
C14_OneContextPerAnchor ==
  "analyzeIndexOpportunities" \in done =>
    /\ Len(contexts) = Cardinality(AnchorLines)
    /\ \A n \in 1..Len(contexts) :
         /\ contexts[n].Line = TrimSpace(plan[NthAnchorLine(n)])
         /\ contexts[n].Cost = HighCost(plan[NthAnchorLine(n)])

\* the walker has returned on a plan with a line below the index threshold
\* before a line exactly at it and a line without parseable annotation
C14_Witness ==
  /\ "analyzeIndexOpportunities" \in done
  /\ indexThreshold > 0
  /\ Len(plan) = 3
  /\ Annotated(plan[1]) /\ HighCost(plan[1]) < indexThreshold
  /\ Annotated(plan[2]) /\ HighCost(plan[2]) = indexThreshold
  /\ ~Annotated(plan[3]) /\ Contains(plan[3], "cost=")
  /\ Len(contexts) = 1

\* C26: called with the same threshold on the same plan, parseCost and
\* parseExplainForIndexes select the same lines: ExpensiveOps and the
\* contexts have the same length and agree, position by position, on the
\* trimmed line, the cost and the operation type.
C26_SameLinesSelected ==
  ({"parseCost", "analyzeIndexOpportunities"} \subseteq done
     /\ threshold = indexThreshold) =>
    /\ Len(contexts) = Len(costInfo.ExpensiveOps)
    /\ \A n \in 1..Len(contexts) :
         /\ contexts[n].Line = costInfo.ExpensiveOps[n].Line
         /\ contexts[n].Cost = costInfo.ExpensiveOps[n].Cost
         /\ contexts[n].OperationType = costInfo.ExpensiveOps[n].Operation

\* both analyzers have returned under the threshold 850.25 on a plan with
\* a line at it, a line above it and a line below it
C26_Witness ==
  /\ {"parseCost", "analyzeIndexOpportunities"} \subseteq done
  /\ threshold = indexThreshold
  /\ threshold > 0
  /\ Len(contexts) = 2
  /\ Cardinality(AnnotatedLines) = 3
  /\ \E n \in 1..2 : contexts[n].Cost = threshold
  /\ contexts[1].OperationType # contexts[2].OperationType

(***************************************************************************)
(* Properties of the generator on any sequence of contexts (specification  *)
(* SpecGen).                                                               *)
(***************************************************************************)
Generated == "generateIndexRecommendations" \in done

\* col is an identifier: letters, digits and "_", not starting with a digit
IsIdentifier(col) ==
  /\ Len(col) >= 1
  /\ Char(col, 1) \notin Digits
  /\ \A q \in 1..Len(col) : Char(col, q) \in WordChars

IsSystemTable(tableName) ==
  HasPrefix(tableName, "pg_catalog") \/ HasPrefix(tableName, "information_schema")

\* tableName(columns) passes the validation of the generator
ValidIndex(tableName, columns) ==
  /\ tableName # ""
  /\ ~IsSystemTable(tableName)
  /\ Len(columns) >= 1
  /\ \A q \in 1..Len(columns) : IsIdentifier(columns[q])

\* indices of the returned recommendations for tableName(columns)
RecsFor(tableName, columns) ==
  {m \in 1..Len(Recs) : Recs[m].TableName = tableName /\ Recs[m].Columns = columns}

IsSortContext(ctx) ==
  /\ Contains(ctx.OperationType, "Sort")
  /\ Len(ctx.SortColumns) > 0
  /\ ctx.TableName # ""

SortReason(columns) == "Expensive sort operation on " \o Join(columns, ", ")

\* C7: a context of a Sort with sort columns and an own table name yields one
\* composite recommendation over all its sort columns in listed order, or
\* none at all when one of the columns is invalid; every sort recommendation
\* comes from such a context, so a context without table name yields none.
C7_SortRule ==
  Generated =>
    /\ \A n \in 1..Len(contexts) :
         IsSortContext(contexts[n]) =>
           IF ValidIndex(contexts[n].TableName, contexts[n].SortColumns)
           THEN Cardinality(RecsFor(contexts[n].TableName, contexts[n].SortColumns)) = 1
           ELSE RecsFor(contexts[n].TableName, contexts[n].SortColumns) = {}
    /\ \A m \in 1..Len(Recs) :
         HasPrefix(Recs[m].Reason, "Expensive sort operation on ") =>
           \E n \in 1..Len(contexts) :
             /\ IsSortContext(contexts[n])
             /\ Recs[m].TableName = contexts[n].TableName
             /\ Recs[m].Columns = contexts[n].SortColumns
             /\ Recs[m].Reason = SortReason(contexts[n].SortColumns)

\* a two-column sort recommendation has been returned while another Sort
\* context, with one invalid column among two, has been rejected as a whole
C7_Witness ==
  /\ Generated
  /\ \E m \in 1..Len(Recs) :
       /\ Len(Recs[m].Columns) = 2
       /\ Recs[m].Reason = SortReason(Recs[m].Columns)
  /\ \E n \in 1..Len(contexts) :
       /\ IsSortContext(contexts[n])
       /\ Len(contexts[n].SortColumns) = 2
       /\ IsIdentifier(contexts[n].SortColumns[1])
       /\ ~IsIdentifier(contexts[n].SortColumns[2])
       /\ ~IsSystemTable(contexts[n].TableName)

\* C8: every returned recommendation has a non-empty table name that is not
\* in a system schema, at least one column, and only identifier columns.
C8_Validation ==
  Generated =>
    \A m \in 1..Len(Recs) :
      /\ Recs[m].TableName # ""
      /\ Len(Recs[m].Columns) >= 1
      /\ \A q \in 1..Len(Recs[m].Columns) : IsIdentifier(Recs[m].Columns[q])
      /\ ~IsSystemTable(Recs[m].TableName)

\* a filter context with an invalid column and a join context with a
\* system-schema pair have been processed and still something is returned
C8_Witness ==
  /\ Generated
  /\ Len(Recs) >= 2
  /\ \E n \in 1..Len(contexts) :
       /\ Contains(contexts[n].OperationType, "Seq Scan")
       /\ contexts[n].TableName = "users"
       /\ \E q \in 1..Len(contexts[n].FilterColumns) :
            ~IsIdentifier(contexts[n].FilterColumns[q])
  /\ \E n \in 1..Len(contexts) :
       /\ Contains(contexts[n].OperationType, "Hash Join")
       /\ contexts[n].TableName = "users"
       /\ \E q \in 1..Len(contexts[n].JoinColumns) :
            IsSystemTable(contexts[n].JoinColumns[q])

\* The candidates in discovery order.  A position <<n, r, k>> is the k-th
\* candidate of rule r for context n; only a context with an own table name
\* has candidates (the generator skips the others before any rule).
RulePositions(n) ==
  LET ctx == contexts[n]
  IN  (IF Contains(ctx.OperationType, "Seq Scan")
       THEN {<<n, 1, k>> : k \in 1..Len(ctx.FilterColumns)} ELSE {})
      \cup
      (IF Contains(ctx.OperationType, "Hash Join") \/ Contains(ctx.OperationType, "Merge Join")
       THEN {<<n, 2, k>> : k \in 1..Len(ctx.JoinColumns)} ELSE {})
      \cup
      (IF Contains(ctx.OperationType, "Sort") /\ Len(ctx.SortColumns) > 0
       THEN {<<n, 3, 1>>} ELSE {})

\* (written as an enumeration of its elements so that TLC computes the set
\* once instead of once per use)
CandidatePositions ==
  {pos : pos \in
     UNION {RulePositions(n) :
              n \in {x \in 1..Len(contexts) : contexts[x].TableName # ""}}}

CandTable(pos) ==
  IF pos[2] = 2 THEN Split(contexts[pos[1]].JoinColumns[pos[3]], ".")[1]
  ELSE contexts[pos[1]].TableName

CandColumns(pos) ==
  CASE pos[2] = 1 -> <<contexts[pos[1]].FilterColumns[pos[3]]>>
    [] pos[2] = 2 -> <<Split(contexts[pos[1]].JoinColumns[pos[3]], ".")[2]>>
    [] pos[2] = 3 -> contexts[pos[1]].SortColumns

CandReason(pos) ==
  CASE pos[2] = 1 -> "Sequential scan with filter on '" \o CandColumns(pos)[1] \o "'"
    [] pos[2] = 2 -> "Join condition on '" \o contexts[pos[1]].JoinColumns[pos[3]] \o "'"
    [] pos[2] = 3 -> SortReason(CandColumns(pos))

CandPriority(pos) ==
  calculatePriority(contexts[pos[1]].Cost, contexts[pos[1]].RowsEstimate,
                    CASE pos[2] = 1 -> "filter" [] pos[2] = 2 -> "join" [] pos[2] = 3 -> "sort")

\* p is discovered before q
Before(p, q) ==
  \/ p[1] < q[1]
  \/ p[1] = q[1] /\ p[2] < q[2]
  \/ p[1] = q[1] /\ p[2] = q[2] /\ p[3] < q[3]

ValidPositions ==
  {pos \in CandidatePositions : ValidIndex(CandTable(pos), CandColumns(pos))}

\* the candidates among valid for tableName(columns)
PositionsFor(valid, tableName, columns) ==
  {pos \in valid : CandTable(pos) = tableName /\ CandColumns(pos) = columns}

\* C9: no two returned recommendations are for the same table and column
\* list; each returned recommendation carries the reason, operation, cost and
\* priority of the first valid candidate, in discovery order, for its table
\* and column list; every valid candidate's table and column list is kept.
C9_FirstCandidateWins ==
  Generated =>
    LET valid == ValidPositions
    IN  /\ \A a, b \in 1..Len(Recs) :
             (Recs[a].TableName = Recs[b].TableName /\ Recs[a].Columns = Recs[b].Columns)
               => a = b
        /\ \A m \in 1..Len(Recs) :
             LET ps == PositionsFor(valid, Recs[m].TableName, Recs[m].Columns)
             IN  /\ ps # {}
                 /\ \A first \in ps :
                      (\A q \in ps : q = first \/ Before(first, q)) =>
                        /\ Recs[m].Reason = CandReason(first)
                        /\ Recs[m].OperationType = contexts[first[1]].OperationType
                        /\ Recs[m].OperationCost = contexts[first[1]].Cost
                        /\ Recs[m].Priority = CandPriority(first)
        /\ \A pos \in valid : RecsFor(CandTable(pos), CandColumns(pos)) # {}

\* two valid candidates for the same table and column list, the later one
\* from another rule and of higher priority and cost, and one more pair of
\* candidates of the same key within one context
C9_Witness ==
  /\ Generated
  /\ \E p, q \in ValidPositions :
       /\ p[1] < q[1]
       /\ p[2] # q[2]
       /\ CandTable(p) = CandTable(q)
       /\ CandColumns(p) = CandColumns(q)
       /\ CandPriority(q) > CandPriority(p)
       /\ contexts[q[1]].Cost > contexts[p[1]].Cost
       /\ \E m \in 1..Len(Recs) :
            /\ Recs[m].Reason = CandReason(p)
            /\ Recs[m].Priority = CandPriority(p)
  /\ \E p, q \in ValidPositions :
       /\ p[1] = q[1]
       /\ p[2] < q[2]
       /\ CandTable(p) = CandTable(q)
       /\ CandColumns(p) = CandColumns(q)

\* C10: every priority is in 1..5, TotalFound is the length of the list,
\* HighPriority is the number of entries of priority >= 4, and ThresholdUsed
\* is the threshold passed in.
C10_PriorityAndTotals ==
  Generated =>
    /\ \A m \in 1..Len(Recs) : Recs[m].Priority \in 1..5
    /\ indexInfo.TotalFound = Len(Recs)
    /\ indexInfo.HighPriority = Cardinality({m \in 1..Len(Recs) : Recs[m].Priority >= 4})
    /\ indexInfo.ThresholdUsed = indexThreshold

\* a join recommendation whose cost tier is already 5 and whose context has
\* more than 100000 rows (both bonuses meet the cap), next to a
\* recommendation of low priority, with a non-zero threshold
C10_Witness ==
  /\ Generated
  /\ indexThreshold > 0
  /\ indexInfo.HighPriority >= 1
  /\ indexInfo.TotalFound > indexInfo.HighPriority
  /\ \E m \in 1..Len(Recs) :
       /\ Recs[m].Priority = 5
       /\ HasPrefix(Recs[m].Reason, "Join condition on ")
       /\ Recs[m].OperationCost > 10000 * CostScale
  /\ \E n \in 1..Len(contexts) : contexts[n].RowsEstimate > 100000

\* the valid de-duplicated candidates, in discovery order, before the sort
Kept == generateLoop([recs |-> <<>>, seen |-> {}], contexts, 1).recs

\* the number of entries of recs equal to rec
Occurrences(recs, rec) == Cardinality({m \in 1..Len(recs) : recs[m] = rec})

\* a goes before b in the final order, or may stay before it
InOrder(a, b) ==
  \/ a.Priority > b.Priority
  \/ a.Priority = b.Priority /\ a.OperationCost >= b.OperationCost

\* C12: the returned list holds every valid de-duplicated candidate exactly
\* as often as the list before the sort does, and nothing else; every
\* adjacent pair is in descending priority, ties in descending cost.
C12_SortedPermutation ==
  Generated =>
    LET kept == Kept
    IN  /\ Len(Recs) = Len(kept)
        /\ \A m \in 1..Len(kept) :
             Occurrences(Recs, kept[m]) = Occurrences(kept, kept[m])
        /\ \A m \in 1..Len(Recs) :
             Occurrences(kept, Recs[m]) = Occurrences(Recs, Recs[m])
        /\ \A m \in 1..(Len(Recs) - 1) : InOrder(Recs[m], Recs[m + 1])

\* three candidates of one priority were discovered with the costliest one
\* last, and the sort has moved it to the front
C12_Witness ==
  /\ Generated
  /\ Len(Recs) = 3
  /\ Recs # Kept
  /\ Recs[1] = Kept[3]
  /\ Recs[1].Priority = Recs[2].Priority
  /\ Recs[2].Priority = Recs[3].Priority
  /\ Recs[1].OperationCost > Recs[2].OperationCost

\* the statement the documentation gives for tableName(columns)
CreateIndexText(tableName, columns) ==
  "CREATE INDEX idx_" \o tableName \o "_" \o Join(columns, "_") \o
  " ON " \o tableName \o " USING BTREE (" \o Join(columns, ", ") \o ");"

\* C15: every returned recommendation has index type BTREE and the statement
\* CREATE INDEX idx_<table>_<col1>_..._<colN> ON <table> USING BTREE
\* (<col1>, ..., <colN>); built from its own table name and columns; equal
\* table name and columns give equal statements.
C15_CreateStatement ==
  Generated =>
    /\ \A m \in 1..Len(Recs) :
         /\ Recs[m].IndexType = "BTREE"
         /\ Recs[m].CreateStatement =
              CreateIndexText(Recs[m].TableName, Recs[m].Columns)
    /\ \A a, b \in 1..Len(Recs) :
         (Recs[a].TableName = Recs[b].TableName /\ Recs[a].Columns = Recs[b].Columns)
           => Recs[a].CreateStatement = Recs[b].CreateStatement

\* a two-column recommendation users(name, id) has been returned next to a
\* single-column one
C15_Witness ==
  /\ Generated
  /\ \E m \in 1..Len(Recs) :
       /\ Recs[m].Columns = <<"name", "id">>
       /\ Recs[m].CreateStatement =
            "CREATE INDEX idx_users_name_id ON users USING BTREE (name, id);"
  /\ \E m \in 1..Len(Recs) : Len(Recs[m].Columns) = 1

(***************************************************************************)
(* Independence of the two analyzers (specification SpecSteps).            *)
(***************************************************************************)
\* C16: however the line-by-line steps of the two analyzers interleave, no
\* step changes the plan text, and each analyzer returns what it returns
\* when it runs alone on that text: parseCost(plan, threshold) and
\* analyzeIndexOpportunities(plan, indexThreshold).
C16_Independent ==
  [][/\ plan' = plan
     /\ "parseCost" \in done' => costInfo' = parseCost(plan', threshold')
     /\ "analyzeIndexOpportunities" \in done' =>
          /\ contexts' = parseExplainForIndexes(plan', indexThreshold')
          /\ indexInfo' = analyzeIndexOpportunities(plan', indexThreshold')]_vars

\* parseCost has returned an expensive operation while the walker, entered
\* and one context into its loop, has lines left to read; the plan holds an
\* indented line
C16_Witness ==
  /\ "parseCost" \in done
  /\ costInfo.ExpensiveOps # <<>>
  /\ walkPos \in 2..Len(plan)
  /\ contexts # <<>>
  /\ "analyzeIndexOpportunities" \notin done
  /\ \E k \in 1..Len(plan) : plan[k] = FilterStatusLine

(***************************************************************************)
(* Properties of parseSQLFile (specification SpecSQLFile).                 *)
(***************************************************************************)
\* the text of the file without blank lines and "--" comment lines, the
\* remaining lines trimmed and joined by a space
RECURSIVE StatementText(_, _)
StatementText(lines, k) ==
  IF k > Len(lines) THEN ""
  ELSE IF TrimSpace(lines[k]) = "" \/ HasPrefix(TrimSpace(lines[k]), "--")
       THEN StatementText(lines, k + 1)
       ELSE TrimSpace(lines[k]) \o " " \o StatementText(lines, k + 1)

\* the non-empty trimmed pieces of a sequence of pieces
RECURSIVE NonEmptyTrimmed(_)
NonEmptyTrimmed(pieces) ==
  IF pieces = <<>> THEN <<>>
  ELSE (IF TrimSpace(pieces[1]) = "" THEN <<>> ELSE <<TrimSpace(pieces[1])>>)
       \o NonEmptyTrimmed(Tail(pieces))

\* the semicolon-separated statements of the file, in file order
Statements(lines) == NonEmptyTrimmed(Split(StatementText(lines, 1), ";"))

\* C18: parseSQLFile returns one element per semicolon-separated statement
\* of the file, in file order, blank lines and "--" comment lines ignored;
\* every element is non-empty and does not end with a semicolon; trailing
\* text without a final semicolon is the last element.
C18_SemicolonSeparated ==
  "parseSQLFile" \in done =>
    LET expected == Statements(sqlFile.lines)
    IN  /\ Len(queries) = Len(expected)
        /\ \A k \in 1..Len(queries) :
             /\ k <= Len(expected) => TrimSpace(queries[k]) = expected[k]
             /\ queries[k] # ""
             /\ ~HasSuffix(queries[k], ";")

(***************************************************************************)
(* Properties of calculatePriority (specification SpecPriority).           *)
(***************************************************************************)
PriorityReturned == "calculatePriority" \in done

\* 1 plus the number of limits the cost exceeds
CostTier(cost) ==
  1 + Cardinality({limit \in {500, 1000, 5000, 10000} : cost > limit * CostScale})

RowsBonus(rows) == IF rows > 100000 THEN 1 ELSE 0

JoinBonus(rule) == IF rule = "join" THEN 1 ELSE 0

\* C11: the priority returned is min(5, tier + rows bonus + join bonus), the
\* tier being 1 raised to 2, 3, 4, 5 when the cost exceeds 500, 1000, 5000,
\* 10000; no lower cost and no lower row estimate scores higher under the
\* same rule, and the join rule scores at least as high as the rule called.
C11_PriorityScore ==
  PriorityReturned =>
    LET cost == priorityCall.cost
        rows == priorityCall.rows
        rule == priorityCall.operationType
        sum  == CostTier(cost) + RowsBonus(rows) + JoinBonus(rule)
    IN  /\ priorityCall.priority = IF sum > 5 THEN 5 ELSE sum
        /\ \A c \in PriorityCosts, r \in PriorityRows :
             (c <= cost /\ r <= rows) =>
               calculatePriority(c, r, rule) <= priorityCall.priority
        /\ calculatePriority(cost, rows, "join") >= priorityCall.priority

\* a filter call with a cost of exactly 5000.00 and a row estimate of exactly
\* 100000 has returned 3: neither limit is exceeded
C11_Witness ==
  /\ PriorityReturned
  /\ priorityCall.cost = 5000 * CostScale
  /\ priorityCall.rows = 100000
  /\ priorityCall.operationType = "filter"
  /\ priorityCall.priority = 3

(***************************************************************************)
(* Properties of the commands (specification SpecCmd).                     *)
(***************************************************************************)
\* the threshold in force: --threshold when given, else a positive default
\* of the configuration, else none
ThresholdInForce ==
  IF flags.thresholdChanged THEN flags.threshold
  ELSE IF env.configThreshold > 0 THEN env.configThreshold
  ELSE 0

\* the messages that show a cost analysis
CostMessages ==
  {"COST THRESHOLD ALERT", "exceeds cost threshold",
   "Query cost is below threshold", "cost", "Cost threshold"}

\* the CostInfos attached to the results of the batch
AttachedCostInfos ==
  IF batchReport = <<>> THEN {}
  ELSE {batchReport.Results[i].CostAnalysis : i \in 1..Len(batchReport.Results)}

\* C17: in the analyze and batch commands, while the effective threshold
\* is 0 or negative, the CostInfo stays nil, no CostInfo is attached to a
\* batch result and neither the cost alert nor any other message of the
\* cost analysis is printed.
C17_NoAlertWithoutThreshold ==
  ThresholdInForce <= 0 =>
    /\ costInfo = NilCostInfo
    /\ AttachedCostInfos \subseteq {NilCostInfo}
    /\ \A i \in 1..Len(stdout) : stdout[i] \notin CostMessages

\* analyze has finished with --threshold -1 given over a configured default,
\* on a plan whose cost exceeds that threshold
C17_Witness ==
  /\ flags.command = "analyze"
  /\ pc = "done"
  /\ flags.thresholdChanged /\ flags.threshold < 0 /\ env.configThreshold > 0
  /\ parseCost(plan, flags.threshold).ExceedsLimit
  /\ costInfo = NilCostInfo

\* C19: the queries sent to the planner are the first queries of the file,
\* in file order; with --continue-on-error the finished batch has sent
\* every query and SuccessCount + FailureCount = TotalQueries = number of
\* Results; without it no query is sent after a failed one.
C19_ContinueOnError ==
  (flags.command = "batch" /\ pc \in {"loop", "report", "done"}) =>
    /\ Len(sent) <= Len(sqlFile.lines)
    /\ \A i \in 1..Len(sent) : sent[i].query \o ";" = sqlFile.lines[i]
    /\ (flags.continueOnError /\ pc \in {"report", "done"}) =>
         Len(sent) = Len(sqlFile.lines)
    /\ (flags.continueOnError /\ pc = "done") =>
         /\ batchReport.SuccessCount + batchReport.FailureCount
              = batchReport.TotalQueries
         /\ batchReport.TotalQueries = Len(batchReport.Results)
         /\ batchReport.TotalQueries = Len(sqlFile.lines)
    /\ ~flags.continueOnError =>
         \A i \in 1..Len(sent) : sent[i].failed => i = Len(sent)

\* a batch with --continue-on-error has finished after a failed first query
\* and a successful later one
C19_Witness ==
  /\ flags.command = "batch"
  /\ pc = "done"
  /\ flags.continueOnError
  /\ Len(sent) >= 2
  /\ sent[1].failed
  /\ ~sent[Len(sent)].failed

\* C20: getQueryInput takes the query from --file when given, else from a
\* piped standard input, else from the editor when --editor is set, also
\* when a command argument is given.
C20_EditorBeforeArgument ==
  (flags.command = "analyze" /\ pc # "start") =>
    /\ flags.file # "" => query = queryFromFile(env)
    /\ (flags.file = "" /\ env.stdinPiped) =>
         query = enteredQuery(TrimSpace(env.stdin), "stdin input is empty")
    /\ (flags.file = "" /\ ~env.stdinPiped /\ flags.editor) =>
         query = getQueryFromEditor(env)

\* C30: in a batch without --continue-on-error the failure count never
\* exceeds 1 and no result carries an error; once query k has failed the
\* report holds the k-1 results of the queries before it, SuccessCount is
\* k-1 and FailureCount 1, so that SuccessCount + FailureCount is one more
\* than the number of results; the finished report has TotalQueries equal
\* to the number of queries of the file, which is more than SuccessCount +
\* FailureCount unless the failed query was the last.
C30_BreakBeforeAppend ==
  (/\ flags.command = "batch"
   /\ ~flags.continueOnError
   /\ pc \in {"loop", "report", "done"}) =>
    /\ batchReport.FailureCount <= 1
    /\ \A n \in 1..Len(batchReport.Results) : batchReport.Results[n].Error = ""
    /\ (sent # <<>> /\ sent[Len(sent)].failed) =>
         /\ Len(batchReport.Results) = Len(sent) - 1
         /\ batchReport.SuccessCount = Len(sent) - 1
         /\ batchReport.FailureCount = 1
         /\ batchReport.SuccessCount + batchReport.FailureCount
              = Len(batchReport.Results) + 1
         /\ pc = "done" =>
              /\ batchReport.TotalQueries = Len(sqlFile.lines)
              /\ Len(sent) < Len(sqlFile.lines) =>
                   batchReport.SuccessCount + batchReport.FailureCount
                     < batchReport.TotalQueries

\* a batch without --continue-on-error has finished after its second query
\* of three failed
C30_Witness ==
  /\ flags.command = "batch"
  /\ ~flags.continueOnError
  /\ pc = "done"
  /\ Len(sqlFile.lines) = 3
  /\ Len(sent) = 2
  /\ sent[2].failed
  /\ Len(batchReport.Results) = 1
  /\ batchReport.TotalQueries = 3

(***************************************************************************)
(* Properties of the lookahead of the walker (specification SpecWalk).     *)
(***************************************************************************)
\* line starts with two spaces or with a tab
StartsIndented(line) ==
  \/ Len(line) >= 2 /\ SubSeq(line, 1, 2) = "  "
  \/ Len(line) >= 1 /\ SubSeq(line, 1, 1) = "\t"

\* the lines after line i, at most four, that come before the first line
\* after i that is not indented
Window(i) ==
  {j \in (i + 1)..(i + 4) :
     /\ j <= Len(plan)
     /\ \A k \in (i + 1)..j : StartsIndented(plan[k])}

\* C21: the context of anchor line i holds the filter, join and sort
\* columns of the annotations on the lines i+1 .. i+4 that come before the
\* first line that is not indented, and of no other line.
C21_BoundedLookahead ==
  "analyzeIndexOpportunities" \in done =>
    /\ Len(contexts) = Cardinality(AnchorLines)
    /\ \A n \in 1..Len(contexts) :
         LET i == NthAnchorLine(n)
         IN  /\ Range(contexts[n].FilterColumns) =
                  UNION {Range(filterColumns(plan[j])) : j \in Window(i)}
             /\ Range(contexts[n].JoinColumns) =
                  UNION {Range(hashJoinColumns(plan[j]))
                           \cup Range(mergeJoinColumns(plan[j])) : j \in Window(i)}
             /\ Range(contexts[n].SortColumns) =
                  UNION {Range(sortColumns(plan[j])) : j \in Window(i)}

\* the walker has returned on a scan followed by five indented lines, the
\* fifth with a filter column that no line of the window names, and on a
\* plan whose window ends early at a line with a filter of its own
C21_Witness ==
  /\ "analyzeIndexOpportunities" \in done
  /\ Len(plan) = 6
  /\ Len(contexts) >= 1
  /\ \A k \in 2..6 : StartsIndented(plan[k])
  /\ "z" \in Range(filterColumns(plan[6]))
  /\ "z" \notin Range(contexts[1].FilterColumns)
  /\ "x" \in Range(contexts[1].FilterColumns)

\* line starts with a space or with a tab
StartsWithWhitespace(line) ==
  Len(line) >= 1 /\ SubSeq(line, 1, 1) \in {" ", "\t"}

\* line starts with one space followed by a character that is no space
StartsWithOneSpace(line) ==
  /\ Len(line) >= 2
  /\ SubSeq(line, 1, 1) = " "
  /\ SubSeq(line, 2, 2) # " "

\* the columns of the annotations of a line
FilterSet(line) == Range(filterColumns(line))

JoinSet(line) == Range(hashJoinColumns(line)) \cup Range(mergeJoinColumns(line))

SortSet(line) == Range(sortColumns(line))

\* ctx holds the columns of the annotations of line
Gathered(ctx, line) ==
  /\ FilterSet(line) \subseteq Range(ctx.FilterColumns)
  /\ JoinSet(line) \subseteq Range(ctx.JoinColumns)
  /\ SortSet(line) \subseteq Range(ctx.SortColumns)

\* ctx holds the columns of the annotations of lines from .. to and no other
GatheredOnly(ctx, from, to) ==
  /\ Range(ctx.FilterColumns) = UNION {FilterSet(plan[k]) : k \in from..to}
  /\ Range(ctx.JoinColumns) = UNION {JoinSet(plan[k]) : k \in from..to}
  /\ Range(ctx.SortColumns) = UNION {SortSet(plan[k]) : k \in from..to}

\* the lines after line i, at most four, that the lookahead can reach
Reach(i) == {j \in (i + 1)..(i + 4) : j <= Len(plan)}

\* C22 as stated: one of the next four lines that starts with a space or a
\* tab, as every line between the anchor and it does, is a child line and
\* its annotations are gathered into the context of the anchor.
C22_SpaceOrTabIndent ==
  "analyzeIndexOpportunities" \in done =>
    /\ Len(contexts) = Cardinality(AnchorLines)
    /\ \A n \in 1..Len(contexts) :
         \A j \in Reach(NthAnchorLine(n)) :
           (\A k \in (NthAnchorLine(n) + 1)..j : StartsWithWhitespace(plan[k]))
             => Gathered(contexts[n], plan[j])

\* C22 amended: one of the next four lines that starts with two spaces or
\* a tab, as every line between the anchor and it does, is a child line and
\* its annotations are gathered; such a line that starts with one space
\* followed by a character that is no space ends the lookahead, and the
\* context holds the annotations of the lines before it only.
C22_TwoSpacesOrTabIndent ==
  "analyzeIndexOpportunities" \in done =>
    /\ Len(contexts) = Cardinality(AnchorLines)
    /\ \A n \in 1..Len(contexts) :
         LET i == NthAnchorLine(n)
         IN  \A j \in Reach(i) :
               (\A k \in (i + 1)..(j - 1) : StartsIndented(plan[k])) =>
                 /\ StartsIndented(plan[j]) => Gathered(contexts[n], plan[j])
                 /\ StartsWithOneSpace(plan[j]) =>
                      GatheredOnly(contexts[n], i + 1, j - 1)

\* the walker has returned on a scan followed by a filter line behind a tab,
\* a filter line behind one space and a sort key behind two spaces: the
\* first is gathered, the other two are not
C22_Witness ==
  /\ "analyzeIndexOpportunities" \in done
  /\ Len(plan) = 4
  /\ Len(contexts) = 1
  /\ SubSeq(plan[2], 1, 1) = "\t"
  /\ StartsWithOneSpace(plan[3])
  /\ StartsIndented(plan[4])
  /\ "z" \in Range(contexts[1].FilterColumns)
  /\ "w" \in FilterSet(plan[3])
  /\ "w" \notin Range(contexts[1].FilterColumns)
  /\ SortSet(plan[4]) # {}
  /\ contexts[1].SortColumns = <<>>

\* the last line of the window of line i, i when the window is empty
WindowEnd(i) ==
  IF Window(i) = {} THEN i
  ELSE CHOOSE j \in Window(i) : \A k \in Window(i) : k <= j

\* the filter columns named on lines from .. to, line by line, in the order
\* the annotations name them
RECURSIVE FilterMentions(_, _)
FilterMentions(from, to) ==
  IF from > to THEN <<>>
  ELSE filterColumns(plan[from]) \o FilterMentions(from + 1, to)

\* position of the first occurrence of x in seq
FirstSeen(seq, x) ==
  CHOOSE k \in 1..Len(seq) : seq[k] = x /\ \A m \in 1..(k - 1) : seq[m] # x

\* C24: the filterColumns of a context hold every column named by a Filter
\* annotation of its window once, never twice, in the order in which the
\* columns are named first.
C24_FilterColumnsFirstSeen ==
  "analyzeIndexOpportunities" \in done =>
    /\ Len(contexts) = Cardinality(AnchorLines)
    /\ \A n \in 1..Len(contexts) :
         LET cols == contexts[n].FilterColumns
             mentions == FilterMentions(NthAnchorLine(n) + 1,
                                        WindowEnd(NthAnchorLine(n)))
         IN  /\ \A a, b \in 1..Len(cols) : cols[a] = cols[b] => a = b
             /\ Range(cols) = Range(mentions)
             /\ \A a, b \in 1..Len(cols) :
                  a < b => FirstSeen(mentions, cols[a]) < FirstSeen(mentions, cols[b])

\* the walker has returned on a scan whose first filter line names x, y and
\* x again and whose second names y again and then z
C24_Witness ==
  /\ "analyzeIndexOpportunities" \in done
  /\ Len(plan) >= 3
  /\ Len(contexts) >= 1
  /\ filterColumns(plan[2]) = <<"x", "y", "x">>
  /\ filterColumns(plan[3]) = <<"y", "z">>
  /\ contexts[1].FilterColumns = <<"x", "y", "z">>

\* the context of anchor line i
ContextOf(i) ==
  contexts[CHOOSE n \in 1..Len(contexts) : NthAnchorLine(n) = i]

\* C28: an indented line j with a cost annotation of its own does not end
\* the lookahead of an anchor line i before it: the annotations of a line k
\* after j, within four lines of i, are gathered into the context of i, and
\* into the context of j when j is an anchor too; a Seq Scan context on a
\* table then yields a recommendation on that table for each filter column
\* of line k.
C28_LookaheadPassesNodes ==
  "analyzeIndexOpportunities" \in done =>
    /\ Len(contexts) = Cardinality(AnchorLines)
    /\ \A i \in AnchorLines :
         \A j, k \in Reach(i) :
           (/\ j < k
            /\ Annotated(plan[j])
            /\ \A l \in (i + 1)..k : StartsIndented(plan[l])) =>
             /\ Gathered(ContextOf(i), plan[k])
             /\ j \in AnchorLines => Gathered(ContextOf(j), plan[k])
             /\ (ContextOf(i).OperationType = "Seq Scan"
                   /\ ContextOf(i).TableName # "") =>
                  \A col \in FilterSet(plan[k]) :
                    Recommended(ContextOf(i).TableName, <<col>>)

\* the walker has returned on the scan on a, followed by the child scan on
\* b and then by a filter line: both contexts hold the filter columns and
\* both tables get a recommendation on x
C28_Witness ==
  /\ "analyzeIndexOpportunities" \in done
  /\ Len(plan) >= 3
  /\ plan[2] = WalkChildScanLine
  /\ "x" \in FilterSet(plan[3])
  /\ Len(contexts) = 2
  /\ contexts[1].TableName = "a" /\ "x" \in Range(contexts[1].FilterColumns)
  /\ contexts[2].TableName = "b" /\ "x" \in Range(contexts[2].FilterColumns)
  /\ Recommended("a", <<"x">>)
  /\ Recommended("b", <<"x">>)

(***************************************************************************)
(* Properties of the operation classifier (specification SpecClassify).    *)
(***************************************************************************)
\* the vocabulary in its fixed order
Vocabulary ==
  <<"Seq Scan", "Index Scan", "Index Only Scan", "Bitmap Heap Scan",
    "Bitmap Index Scan", "Nested Loop", "Hash Join", "Merge Join", "Sort",
    "Aggregate", "Hash", "Materialize", "Gather", "Parallel Seq Scan">>

\* sub occurs in s, letter for letter
IsSubstring(sub, s) ==
  \E p \in 1..(Len(s) - Len(sub) + 1) : SubSeq(s, p, p + Len(sub) - 1) = sub

\* positions in the vocabulary of the entries the line contains
ContainedEntries(line) ==
  {k \in 1..Len(Vocabulary) : IsSubstring(Vocabulary[k], line)}

Blanks == {" ", "\t", "\n", "\r"}

IsBlankAt(s, p) == SubSeq(s, p, p) \in Blanks

\* positions where a whitespace-delimited token of s starts
TokenStarts(s) ==
  {p \in 1..Len(s) : ~IsBlankAt(s, p) /\ (p = 1 \/ IsBlankAt(s, p - 1))}

\* the token of s that starts at p
TokenAt(s, p) ==
  SubSeq(s, p, CHOOSE q \in p..Len(s) :
                 /\ \A r \in p..q : ~IsBlankAt(s, r)
                 /\ (q = Len(s) \/ IsBlankAt(s, q + 1)))

\* the n-th token of s
NthToken(s, n) ==
  TokenAt(s, CHOOSE p \in TokenStarts(s) :
               Cardinality({x \in TokenStarts(s) : x < p}) = n - 1)

\* the line classified and the operation type returned for it
ClassifiedLine == operationCall.line

Classified == operationCall.operation

\* C23: extractOperationType returns the first entry of the vocabulary, in
\* its fixed order, that the line contains letter for letter; when the line
\* contains none, its first two tokens joined by one space, its only token,
\* or "Unknown Operation" when it has no token.
C23_FirstEntryOrWords ==
  "extractOperationType" \in done =>
    IF ContainedEntries(ClassifiedLine) # {}
    THEN \E k \in ContainedEntries(ClassifiedLine) :
           /\ Classified = Vocabulary[k]
           /\ \A m \in ContainedEntries(ClassifiedLine) : k <= m
    ELSE IF Cardinality(TokenStarts(ClassifiedLine)) >= 2
    THEN Classified =
           NthToken(ClassifiedLine, 1) \o " " \o NthToken(ClassifiedLine, 2)
    ELSE IF Cardinality(TokenStarts(ClassifiedLine)) = 1
    THEN Classified = NthToken(ClassifiedLine, 1)
    ELSE Classified = "Unknown Operation"

\* a line that names a scan in lower case after an arrow has been classified
\* by its first two tokens
C23_Witness ==
  /\ "extractOperationType" \in done
  /\ IsSubstring("seq scan", ClassifiedLine)
  /\ ContainedEntries(ClassifiedLine) = {}
  /\ Cardinality(TokenStarts(ClassifiedLine)) >= 3
  /\ Classified = "-> seq"

\* C29: extractOperationType returns neither "Parallel Seq Scan" nor
\* "Bitmap Index Scan": a line that contains "Parallel Seq Scan" is a
\* "Seq Scan", a line that contains "Bitmap Index Scan" is an "Index Scan"
\* unless it is a "Seq Scan", and "Hash" is returned only for a line that
\* contains none of the ten entries ahead of it.
C29_ShadowedEntries ==
  "extractOperationType" \in done =>
    /\ Classified \notin {"Parallel Seq Scan", "Bitmap Index Scan"}
    /\ IsSubstring("Parallel Seq Scan", ClassifiedLine) => Classified = "Seq Scan"
    /\ IsSubstring("Bitmap Index Scan", ClassifiedLine) =>
         Classified \in {"Seq Scan", "Index Scan"}
    /\ Classified = "Hash" =>
         \A k \in 1..10 : ~IsSubstring(Vocabulary[k], ClassifiedLine)

\* a child line that names a Bitmap Index Scan has been classified as an
\* Index Scan
C29_Witness ==
  /\ "extractOperationType" \in done
  /\ IsSubstring("->  Bitmap Index Scan on t", ClassifiedLine)
  /\ Classified = "Index Scan"

(***************************************************************************)
(* Properties of the engine end to end (specification Spec).               *)
(***************************************************************************)
\* the node names after which tableNameRegex reads a table name
TableScans ==
  {"Seq Scan", "Parallel Seq Scan", "Index Scan", "Index Only Scan",
   "Bitmap Heap Scan"}

FilterReasonStart == "Sequential scan with filter on '"

\* C27: once analyzeIndexOpportunities has returned, a context has a table
\* name only if its line names a scan on a relation, and is then a Seq
\* Scan, an Index Scan, an Index Only Scan or a Bitmap Heap Scan; every
\* recommendation is one of the filter rule: on the table of a context,
\* with operation type "Seq Scan" and a 'Sequential scan with filter'
\* reason.  The join rule and the sort rule contribute none.
C27_OnlyFilterRule ==
  "analyzeIndexOpportunities" \in done =>
    /\ \A n \in 1..Len(contexts) :
         contexts[n].TableName # "" =>
           /\ \E scan \in TableScans :
                IsSubstring(scan \o " on " \o contexts[n].TableName,
                            contexts[n].Line)
           /\ contexts[n].OperationType \in
                {"Seq Scan", "Index Scan", "Index Only Scan", "Bitmap Heap Scan"}
    /\ \A m \in 1..Len(Recs) :
         /\ Recs[m].OperationType = "Seq Scan"
         /\ Len(Recs[m].Reason) > Len(FilterReasonStart)
         /\ SubSeq(Recs[m].Reason, 1, Len(FilterReasonStart)) = FilterReasonStart
         /\ Len(Recs[m].Columns) = 1
         /\ \E n \in 1..Len(contexts) :
              /\ contexts[n].TableName = Recs[m].TableName
              /\ Recs[m].Columns[1] \in Range(contexts[n].FilterColumns)

\* the engine has returned one recommendation on a plan whose scan has
\* gathered a filter column and the columns of a join condition
C27_Witness ==
  /\ "analyzeIndexOpportunities" \in done
  /\ Len(Recs) = 1
  /\ \E n \in 1..Len(contexts) :
       /\ contexts[n].TableName # ""
       /\ contexts[n].FilterColumns # <<>>
       /\ contexts[n].JoinColumns # <<>>

====
